---- MODULE Spec2Model ----
(***************************************************************************)
(* Model of the glucose synchronisation pipeline of peb_dx_chart:          *)
(*   - the watch side (src/src/c/main.c): inbox_received_callback, the     *)
(*     reading buffer and the chart refresh;                               *)
(*   - the phone side (src/src/pkjs/index.js): sendGlucoseData/sendChunks; *)
(*   - the Dexcom session client (src/src/pkjs/dexcom.js).                 *)
(* Three specifications share the module: SpecRecv (the watch driven by    *)
(* arbitrary AppMessages), SpecSend (send cycles over a lossy channel) and *)
(* SpecDex (one Dexcom instance against an arbitrary server).              *)
(***************************************************************************)
EXTENDS Integers, Sequences, FiniteSets, TLC

VARIABLES
    \* ---- watch (main.c) ----
    s_readings,        \* GlucoseReading s_readings[MAX_READINGS]
    s_reading_count,   \* number of slots the chart draws
    s_expected_count,  \* count announced by the last header
    s_received_count,  \* records stored since the last header
    s_receiving_data,  \* a receive cycle is in progress
    s_bg_units,        \* units label
    s_is_mmol,
    s_invert_y,
    s_status_text,     \* status bar text
    dirty,             \* chart layer marked dirty, redraw pending
    \* ---- watch, observation only ----
    oob,               \* indices outside the array that were stored to
    hdr,               \* a header message has been received
    nmsg,              \* messages received since the last header
    completions,       \* completion blocks run since the last header
    published,         \* reading set published by the last completion
    \* ---- phone, send side (index.js) ----
    appSettings,       \* appSettings.BG_UNITS ("" when unset)
    cyc,               \* one record per send cycle (a call of sendGlucoseData)
    \* ---- phone, Dexcom client (dexcom.js) ----
    dex,               \* the Dexcom instance of one fetch cycle
    \* ---- phone, reading cache (index.js) ----
    glucose_cache,     \* the list under localStorage key glucose_cache
    now,               \* the phone's clock, seconds
    lastMerge,         \* arguments and result of the latest mergeCache call
    \* ---- wire codec, phone to watch ----
    codecIn,           \* the readings handed to encodeReadingsToBytes
    wire,              \* the bytes it returned
    decoded,           \* the slots the watch decoded them into
    \* ---- watch, frame buffer ----
    canvas,            \* what chart_layer_update_proc drew last (SpecRender)
    \* ---- the AppMessage channel, phone to watch, observation only ----
    channel,           \* sends and their outcomes, in order (SpecLink)
    \* ---- phone, fetch cycles (index.js) ----
    fetches            \* one record per call of fetchGlucoseData (SpecFetch)

watchVars == << s_readings, s_reading_count, s_expected_count, s_received_count,
                s_receiving_data, s_bg_units, s_is_mmol, s_invert_y,
                s_status_text, dirty, oob, hdr, nmsg, completions, published >>

sendVars == << appSettings, cyc >>

dexVars == << dex >>

cacheVars == << glucose_cache, now, lastMerge >>

codecVars == << codecIn, wire, decoded >>

renderVars == << canvas >>

linkVars == << channel >>

fetchVars == << fetches >>

vars == << watchVars, sendVars, dexVars, cacheVars, codecVars, renderVars, linkVars, fetchVars >>

-----------------------------------------------------------------------------
(* Program constants *)

MAX_READINGS == 36

BYTES_PER_READING == 6

MAX_READINGS_PER_CHUNK == 316

\* MMOL_CONVERSION_FACTOR = 18.0182, in units of 1/10000
MMOL_CONVERSION_FACTOR_E4 == 180182

\* retries a failed chunk send gets, the literal of `retries < 3`
MAX_CHUNK_RETRIES == 3

\* re-authentications a Dexcom instance makes, the literal of `retryCount < 2`
MAX_SESSION_RETRIES == 2

(* Bounds of the model *)

\* messages the watch receives between two headers
MaxMsgs == 2

\* send cycles (calls of sendGlucoseData) in one run; they may overlap
MaxCycles == 2

\* remote requests one Dexcom instance issues before the model stops it
MaxRequests == 8

\* entries in one batch of new readings
MaxList == 2

\* five-minute clock steps
MaxTicks == 1

\* readings in one encoded list
MaxCodec == 2

-----------------------------------------------------------------------------
(* Integer conversions of the C side *)

\* TLC's integers are 32-bit signed: an int32_t (and a JS number after ToInt32) is
\* a model integer as it stands; narrower and unsigned types are reduced explicitly.
Pow2_8  == 256
Pow2_16 == 65536
Pow2_24 == 16777216

\* (int16_t) x
ToInt16(x) == LET m == x % Pow2_16 IN IF m >= Pow2_16 \div 2 THEN m - Pow2_16 ELSE m

\* (time_t)((uint32_t)b0 | b1 << 8 | b2 << 16 | b3 << 24), lines 581-584: time_t is
\* a signed 32-bit long on the watch's ARM build, so a set top bit gives a negative
\* time
TimeFromBytes(b0, b1, b2, b3) ==
    b0 + b1 * Pow2_8 + b2 * Pow2_16
       + (IF b3 >= Pow2_8 \div 2 THEN b3 - Pow2_8 ELSE b3) * Pow2_24

Min(a, b) == IF a < b THEN a ELSE b

-----------------------------------------------------------------------------
(* Wire encoding, phone side (index.js) *)

\* A timestamp on the phone is a JS number; those of [0, 2^32) that TLC's integers
\* cannot hold are carried as their two 16-bit halves, ts = hi * 2^16 + lo.

\* the value bytes in the opposite order
EncodeReadingWide_be(value, hi, lo) ==
    LET v == value % Pow2_16
    IN << (v \div Pow2_8) % Pow2_8, v % Pow2_8,
          lo % Pow2_8, (lo \div Pow2_8) % Pow2_8,
          hi % Pow2_8, (hi \div Pow2_8) % Pow2_8 >>

\* the six bytes pushed for one reading, index.js 113-120
EncodeReadingWide(value, hi, lo) ==
    LET v == value % Pow2_16           \* value & 0xFFFF
    IN << v % Pow2_8, (v \div Pow2_8) % Pow2_8,           \* v & 0xFF, (v >> 8) & 0xFF
          lo % Pow2_8, (lo \div Pow2_8) % Pow2_8,         \* ts & 0xFF, (ts >> 8) & 0xFF
          hi % Pow2_8, (hi \div Pow2_8) % Pow2_8 >>       \* (ts >> 16) & 0xFF, (ts >> 24) & 0xFF

\* the same for a timestamp TLC can hold; >> is the flooring shift
EncodeReading(value, ts) == EncodeReadingWide(value, ts \div Pow2_16, ts % Pow2_16)

\* the loop of lines 109-121 over readings [value, hi, lo]
RECURSIVE EncodeFrom(_, _)
EncodeFrom(readings, i) ==
    IF i > Len(readings) THEN << >>
    ELSE EncodeReadingWide(readings[i].value, readings[i].hi, readings[i].lo)
            \o EncodeFrom(readings, i + 1)

encodeReadingsToBytes(values, timestamps) ==
    EncodeFrom([i \in 1 .. Len(values) |->
                   [value |-> values[i], hi |-> timestamps[i] \div Pow2_16,
                    lo |-> timestamps[i] % Pow2_16]], 1)

-----------------------------------------------------------------------------
(* Watch: the state as one record, so that handlers are operators *)

ZeroReading == [value |-> 0, timestamp |-> 0]

Watch == [ s_readings       |-> s_readings,
           s_reading_count  |-> s_reading_count,
           s_expected_count |-> s_expected_count,
           s_received_count |-> s_received_count,
           s_receiving_data |-> s_receiving_data,
           s_bg_units       |-> s_bg_units,
           s_is_mmol        |-> s_is_mmol,
           s_invert_y       |-> s_invert_y,
           s_status_text    |-> s_status_text,
           dirty            |-> dirty,
           oob              |-> oob,
           hdr              |-> hdr,
           nmsg             |-> nmsg,
           completions      |-> completions,
           published        |-> published ]

\* the layer before its first redraw
NoGrid == [threshold |-> 0, solid |-> {}, step |-> 0, dotted |-> {}]

BlankCanvas == [kind |-> "blank", min_bg |-> 0, max_bg |-> 0, segments |-> {},
                dots |-> {}, grid |-> NoGrid, time_grid |-> {}, labels |-> << >>]

WatchInit == [ s_readings       |-> [i \in 0 .. MAX_READINGS - 1 |-> ZeroReading],
               s_reading_count  |-> 0,
               s_expected_count |-> 0,
               s_received_count |-> 0,
               s_receiving_data |-> FALSE,
               s_bg_units       |-> "mg/dL",
               s_is_mmol        |-> FALSE,
               s_invert_y       |-> FALSE,
               s_status_text    |-> [text |-> "Loading...", n |-> 0],
               dirty            |-> TRUE,
               oob              |-> {},
               hdr              |-> FALSE,
               nmsg             |-> 0,
               completions      |-> 0,
               published        |-> [n |-> 0, slots |-> << >>] ]

\* the slots chart_layer_update_proc reads: [0, s_reading_count), as far as the
\* array goes
DrawnReadings(w) ==
    [ n     |-> w.s_reading_count,
      slots |-> [i \in 1 .. Min(w.s_reading_count, MAX_READINGS) |-> w.s_readings[i - 1]] ]

\* what chart_layer_update_proc puts on the screen
Screen(w) ==
    IF w.s_reading_count = 0
    THEN [kind |-> IF w.s_receiving_data THEN "Loading..." ELSE "No data",
          data |-> DrawnReadings(w)]
    ELSE [kind |-> "chart", data |-> DrawnReadings(w)]

\* update_chart: mark the layer dirty, refresh the status text (the minutes part
\* of the text depends on the wall clock and is left out)
update_chart(w) ==
    [w EXCEPT !.dirty = TRUE,
              !.s_status_text = IF w.s_reading_count > 0
                                THEN [text |-> "readings", n |-> w.s_reading_count]
                                ELSE [text |-> "No data", n |-> 0]]

\* lines 588-592 and 604-608: publish and refresh
Complete(w) ==
    LET w1 == [w EXCEPT !.s_reading_count = w.s_expected_count,
                        !.s_receiving_data = FALSE]
    IN [update_chart(w1) EXCEPT !.completions = @ + 1,
                                !.published = DrawnReadings(w1)]

\* A store to s_readings[idx] with idx below 0 is undefined behaviour: it lands in
\* the statics next to the array.  The outcomes kept are: no modelled variable is
\* hit, or one of the counters is overwritten by the stored timestamp word.
OobVictims == {"none", "s_reading_count", "s_received_count"}

\* record i of a chunk payload, lines 579-584 (data is 1-based here)
DecodeRecord(data, i) ==
    LET offset == i * BYTES_PER_READING
    IN [value |-> ToInt16(data[offset + 1] + data[offset + 2] * Pow2_8),
        timestamp |-> TimeFromBytes(data[offset + 3], data[offset + 4],
                                    data[offset + 5], data[offset + 6])]

\* number of iterations of the for loop of lines 576-586: it runs while
\* i < byte_len / BYTES_PER_READING and stops at the first idx >= MAX_READINGS
ChunkIterations(data, start_index) ==
    LET readings_in_chunk == Len(data) \div BYTES_PER_READING
    IN IF start_index >= MAX_READINGS THEN 0
       ELSE Min(readings_in_chunk, MAX_READINGS - start_index)

\* the for loop of the bulk chunk path, lines 576-586, taken as a whole: iteration
\* i stores record i at idx = start_index + i and increments s_received_count; the
\* iterations with idx < 0 (they come first) store outside the array
ChunkLoop(w, data, start_index, victim) ==
    LET k == ChunkIterations(data, start_index)
        below == {i \in 0 .. k - 1 : start_index + i < 0}
        w1 == [w EXCEPT
                 !.s_readings = [idx \in 0 .. MAX_READINGS - 1 |->
                                   IF idx - start_index \in 0 .. k - 1
                                   THEN DecodeRecord(data, idx - start_index)
                                   ELSE w.s_readings[idx]],
                 !.oob = @ \cup {start_index + i : i \in below}]
        last == Cardinality(below) - 1
        word == DecodeRecord(data, last).timestamp
    IN IF below = {} \/ victim = "none"
       THEN [w1 EXCEPT !.s_received_count = @ + k]
       ELSE IF victim = "s_received_count"
       THEN [w1 EXCEPT !.s_received_count = word + (k - last)]
       ELSE [w1 EXCEPT !.s_reading_count = word,
                       !.s_received_count = @ + k]

\* A message is a record of tuples; an absent key is the empty sequence, a present
\* one a one-element sequence.  The int32 members are model integers.
Has(t) == Len(t) > 0

NoMsg == [count |-> << >>, units |-> << >>, index |-> << >>, chunk |-> << >>,
          value |-> << >>, timestamp |-> << >>, invert |-> << >>]

\* snprintf(buffer, size, "%s", str): at most size - 1 characters are stored
snprintf(size, str) == IF Len(str) > size - 1 THEN SubSeq(str, 1, size - 1) ELSE str

\* sizeof(s_bg_units), line 51
UNITS_SIZE == 10

\* the header keeps the count of records received so far
HeaderReset_keepReceived(w, count) ==
    [w EXCEPT !.s_expected_count = Min(count, MAX_READINGS),
              !.s_receiving_data = TRUE,
              !.s_readings = [i \in 0 .. MAX_READINGS - 1 |-> ZeroReading],
              !.hdr = TRUE, !.nmsg = 0, !.completions = 0]

\* the header branch, lines 559-567
HeaderReset(w, count) ==
    [w EXCEPT !.s_expected_count = Min(count, MAX_READINGS),
              !.s_received_count = 0,
              !.s_receiving_data = TRUE,
              !.s_readings = [i \in 0 .. MAX_READINGS - 1 |-> ZeroReading],
              !.hdr = TRUE, !.nmsg = 0, !.completions = 0]

\* inbox_received_callback, lines 539-611
inbox_received_callback(w, m, victim) ==
    LET wu == IF Has(m.units)
              THEN LET units == snprintf(UNITS_SIZE, m.units[1])
                   IN [w EXCEPT !.s_bg_units = units,
                                !.s_is_mmol = (units = "mmol/L")]
              ELSE w
        wi == IF Has(m.invert)
              THEN [wu EXCEPT !.s_invert_y = (m.invert[1] # 0)]
              ELSE wu
    IN IF Has(m.count)
       THEN HeaderReset(wi, m.count[1])
       ELSE LET wn == [wi EXCEPT !.nmsg = @ + 1] IN
            IF Has(m.chunk) /\ Has(m.index)
            THEN LET w1 == ChunkLoop(wn, m.chunk[1], m.index[1], victim)
                 IN IF w1.s_received_count >= w1.s_expected_count
                    THEN Complete(w1) ELSE w1
            ELSE IF Has(m.index) /\ Has(m.value) /\ Has(m.timestamp)
            THEN LET index == m.index[1] IN
                 IF index >= 0 /\ index < MAX_READINGS
                 THEN LET w1 == [wn EXCEPT
                                   !.s_readings[index] =
                                       [value |-> ToInt16(m.value[1]),
                                        timestamp |-> m.timestamp[1]],
                                   !.s_received_count = @ + 1]
                      IN IF w1.s_received_count >= w1.s_expected_count
                         THEN Complete(w1) ELSE w1
                 ELSE wn
            ELSE wn

\* tick_handler on a 5-minute boundary: update_chart, then request_data (the
\* request goes to the phone, whose fetch cycles are the environment here)
tick_handler(w) == update_chart(w)

-----------------------------------------------------------------------------
(* Watch: the chart renderer, main.c 62-99 and 132-500 *)

CHART_START_X == 30
CHART_START_Y == 10
CHART_WIDTH   == 114
CHART_HEIGHT  == 148
TIME_SPACING  == 4
BG_PADDING    == 10
BG_MIN_RANGE  == 30

\* C's int division truncates toward zero (b > 0)
CDiv(a, b) == IF a >= 0 THEN a \div b ELSE -((-a) \div b)

SetMin(S) == CHOOSE x \in S : \A y \in S : x <= y
SetMax(S) == CHOOSE x \in S : \A y \in S : x >= y

chart_left(w) == IF w.s_invert_y THEN 0 ELSE CHART_START_X

bg_to_x(w, bg_value, min_bg, bg_range) ==
    IF w.s_invert_y
    THEN chart_left(w) + CHART_WIDTH - CDiv((bg_value - min_bg) * CHART_WIDTH, bg_range)
    ELSE chart_left(w) + CDiv((bg_value - min_bg) * CHART_WIDTH, bg_range)

index_to_y(w, index) ==
    IF w.s_invert_y
    THEN CHART_START_Y + (index * TIME_SPACING)
    ELSE CHART_START_Y + CHART_HEIGHT - (index * TIME_SPACING)

clamp_x(w, x) ==
    LET left == chart_left(w)
    IN IF x < left THEN left
       ELSE IF x > left + CHART_WIDTH THEN left + CHART_WIDTH
       ELSE x

x_in_bounds(w, x) == x >= chart_left(w) /\ x <= chart_left(w) + CHART_WIDTH

\* the values the auto-scale loop reads: slot 0 and slots [1, s_reading_count), as
\* far as the array goes
ScaledValues(w) ==
    {w.s_readings[i].value : i \in 0 .. Min(w.s_reading_count, MAX_READINGS) - 1}
        \cup {w.s_readings[0].value}

\* the padding alone, without the minimum range
AutoScale_padOnly(w) ==
    [min_bg |-> SetMin(ScaledValues(w)) - BG_PADDING,
     max_bg |-> SetMax(ScaledValues(w)) + BG_PADDING]

\* the auto-scale of chart_layer_update_proc, lines 475-494
AutoScale(w) ==
    LET data_min == SetMin(ScaledValues(w))
        data_max == SetMax(ScaledValues(w))
        min_bg == data_min - BG_PADDING
        max_bg == data_max + BG_PADDING
    IN IF max_bg - min_bg < BG_MIN_RANGE
       THEN LET center == CDiv(min_bg + max_bg, 2)
            IN [min_bg |-> center - CDiv(BG_MIN_RANGE, 2),
                max_bg |-> center + CDiv(BG_MIN_RANGE, 2)]
       ELSE [min_bg |-> min_bg, max_bg |-> max_bg]

\* the line segments of draw_glucose_line, lines 272-283: one graphics_draw_line per
\* pair of consecutive samples (t1 and t2 are the two samples' timestamps, kept
\* for observation)
LineSegments(w, min_bg, bg_range) ==
    { [i  |-> i,
       x1 |-> clamp_x(w, bg_to_x(w, w.s_readings[i].value, min_bg, bg_range)),
       y1 |-> index_to_y(w, i),
       x2 |-> clamp_x(w, bg_to_x(w, w.s_readings[i + 1].value, min_bg, bg_range)),
       y2 |-> index_to_y(w, i + 1),
       t1 |-> w.s_readings[i].timestamp,
       t2 |-> w.s_readings[i + 1].timestamp] :
         i \in 0 .. Min(w.s_reading_count, MAX_READINGS) - 2 }

\* the filled circles of draw_glucose_line: one per segment start, lines 281-282,
\* and the oldest sample's when it is inside the chart, lines 286-295
LineDots(w, min_bg, bg_range) ==
    LET n == Min(w.s_reading_count, MAX_READINGS)
        lx == bg_to_x(w, w.s_readings[n - 1].value, min_bg, bg_range)
    IN { [x |-> seg.x1, y |-> seg.y1] : seg \in LineSegments(w, min_bg, bg_range) }
         \cup (IF n > 0 /\ x_in_bounds(w, lx)
               THEN { [x |-> lx, y |-> index_to_y(w, n - 1)] } ELSE {})

\* the candidate steps of choose_grid_step, lines 135 and 143
GridSteps(w) == IF w.s_is_mmol THEN << 10, 20, 50 >> ELSE << 10, 20, 25, 50, 100 >>

\* choose_grid_step, lines 132-153: the first candidate that fits one to three
\* times into the range, the largest candidate when none does
choose_grid_step(w, bg_range) ==
    LET steps == GridSteps(w)
        fits == {i \in 1 .. Len(steps) : CDiv(bg_range, steps[i]) \in 1 .. 3}
    IN IF fits # {} THEN steps[SetMin(fits)] ELSE steps[Len(steps)]

Abs(n) == IF n < 0 THEN -n ELSE n

RECURSIVE Lowest(_, _)
Lowest(S, n) ==
    IF n = 0 \/ S = {} THEN {}
    ELSE {SetMin(S)} \cup Lowest(S \ {SetMin(S)}, n - 1)

\* the fixed clinical threshold of draw_value_grid, lines 185-191
GridThreshold(w, min_bg, max_bg) ==
    IF w.s_is_mmol
    THEN IF 40 >= min_bg /\ 40 <= max_bg THEN 40 ELSE 30
    ELSE IF 72 >= min_bg /\ 72 <= max_bg THEN 72 ELSE 54

\* the values the loop of lines 207-221 visits: first, first + step, ... below max_bg
GridCandidates(min_bg, max_bg, step) ==
    LET first == (CDiv(min_bg, step) + 1) * step
    IN IF first >= max_bg THEN {}
       ELSE {first + k * step : k \in 0 .. ((max_bg - 1 - first) \div step)}

\* the loop draws every candidate, near the threshold or not
draw_value_grid_noskip(w, min_bg, bg_range) ==
    LET max_bg == min_bg + bg_range
        threshold == GridThreshold(w, min_bg, max_bg)
        step == choose_grid_step(w, bg_range)
        lines == {bg \in GridCandidates(min_bg, max_bg, step) :
                     x_in_bounds(w, bg_to_x(w, bg, min_bg, bg_range))}
    IN [threshold |-> threshold,
        solid     |-> IF x_in_bounds(w, bg_to_x(w, threshold, min_bg, bg_range))
                      THEN {threshold} ELSE {},
        step      |-> step,
        dotted    |-> Lowest(lines, 3)]

\* draw_value_grid, lines 182-222: the solid threshold line when it is inside the
\* chart, then the first three candidates that are neither close to the
\* threshold nor outside the chart, as dotted lines
draw_value_grid(w, min_bg, bg_range) ==
    LET max_bg == min_bg + bg_range
        threshold == GridThreshold(w, min_bg, max_bg)
        step == choose_grid_step(w, bg_range)
        close_dist == IF CDiv(bg_range, 20) < 1 THEN 1 ELSE CDiv(bg_range, 20)
        lines == {bg \in GridCandidates(min_bg, max_bg, step) :
                     /\ ~(Abs(bg - threshold) < close_dist)
                     /\ x_in_bounds(w, bg_to_x(w, bg, min_bg, bg_range))}
    IN [threshold |-> threshold,
        solid     |-> IF x_in_bounds(w, bg_to_x(w, threshold, min_bg, bg_range))
                      THEN {threshold} ELSE {},
        step      |-> step,
        dotted    |-> Lowest(lines, 3)]

TIME_GRID_INTERVAL == 6

\* draw_time_grid, lines 227-263: a dotted line every TIME_GRID_INTERVAL samples,
\* at the height of that index, labelled with index * 5 minutes
draw_time_grid(w) ==
    { [i |-> i, y |-> index_to_y(w, i), minutes_ago |-> i * 5] :
        i \in { k \in 0 .. w.s_reading_count :
                  /\ k % TIME_GRID_INTERVAL = 0
                  /\ index_to_y(w, k) >= CHART_START_Y
                  /\ index_to_y(w, k) <= CHART_START_Y + CHART_HEIGHT } }

\* label_w, label_h and OFFSET of draw_extremum_labels, lines 339-340 and 350
LABEL_W == 30
LABEL_H == 16
LABEL_OFFSET == 4

\* the label's x on the lower-value side of its point (main.c 359-366) or on the
\* higher-value side (main.c 375-382); lower values are to the left unless the
\* chart is inverted
LabelX(w, px, towardLower) ==
    LET left == chart_left(w)
        right_edge == left + CHART_WIDTH
    IN IF towardLower = ~w.s_invert_y
       THEN IF px - LABEL_W - LABEL_OFFSET < left
            THEN px + LABEL_OFFSET ELSE px - LABEL_W - LABEL_OFFSET
       ELSE IF px + LABEL_OFFSET + LABEL_W > right_edge
            THEN px - LABEL_W - LABEL_OFFSET ELSE px + LABEL_OFFSET

\* the clamp of lines 417-423
ClampLabelY(ly) ==
    LET l0 == IF ly < 0 THEN 0 ELSE ly
    IN IF l0 + LABEL_H > CHART_START_Y + CHART_HEIGHT
       THEN CHART_START_Y + CHART_HEIGHT - LABEL_H ELSE l0

\* draw_extremum_labels, lines 306-443: the text rectangles of the minimum and
\* the maximum label, as << minimum, maximum >>
draw_extremum_labels(w, min_bg, bg_range) ==
    IF w.s_reading_count < 1 THEN << >>
    ELSE
    LET n == Min(w.s_reading_count, MAX_READINGS)
        vals == [i \in 0 .. n - 1 |-> w.s_readings[i].value]
        min_val == SetMin({vals[i] : i \in 0 .. n - 1})
        max_val == SetMax({vals[i] : i \in 0 .. n - 1})
        min_idx == SetMin({i \in 0 .. n - 1 : vals[i] = min_val})
        max_idx == SetMin({i \in 0 .. n - 1 : vals[i] = max_val})
        min_px == clamp_x(w, bg_to_x(w, min_val, min_bg, bg_range))
        min_py == index_to_y(w, min_idx)
        max_px == clamp_x(w, bg_to_x(w, max_val, min_bg, bg_range))
        max_py == index_to_y(w, max_idx)
        min_top == min_py - CDiv(LABEL_H, 2)
        max_top == max_py - CDiv(LABEL_H, 2)
        overlapping == min_top < max_top + LABEL_H /\ max_top < min_top + LABEL_H
        overlap == Min(min_top, max_top) + LABEL_H - (IF min_top > max_top THEN min_top ELSE max_top)
        half == CDiv(overlap + 1, 2)
        min_ly == IF ~overlapping THEN min_top
                  ELSE IF min_py < max_py THEN min_top - half ELSE min_top + half
        max_ly == IF ~overlapping THEN max_top
                  ELSE IF min_py < max_py THEN max_top + half ELSE max_top - half
    IN << [x |-> LabelX(w, min_px, TRUE), y |-> ClampLabelY(min_ly),
           w |-> LABEL_W, h |-> LABEL_H, value |-> min_val],
          [x |-> LabelX(w, max_px, FALSE), y |-> ClampLabelY(max_ly),
           w |-> LABEL_W, h |-> LABEL_H, value |-> max_val] >>

\* what chart_layer_update_proc draws, lines 469-500
Draw(w) ==
    IF w.s_reading_count = 0
    THEN [BlankCanvas EXCEPT
            !.kind = IF w.s_receiving_data THEN "Loading..." ELSE "No data"]
    ELSE LET scale == AutoScale(w)
             bg_range == scale.max_bg - scale.min_bg
         IN [kind     |-> "chart",
             min_bg   |-> scale.min_bg,
             max_bg   |-> scale.max_bg,
             segments |-> LineSegments(w, scale.min_bg, bg_range),
             dots     |-> LineDots(w, scale.min_bg, bg_range),
             grid     |-> draw_value_grid(w, scale.min_bg, bg_range),
             time_grid |-> draw_time_grid(w),
             labels   |-> draw_extremum_labels(w, scale.min_bg, bg_range)]

\* the framework redraws a dirty layer: chart_layer_update_proc runs (the watch's
\* own state; the pixels it draws are Draw(w))
chart_layer_update_proc(w) == [w EXCEPT !.dirty = FALSE]

SetWatch(w) ==
    /\ s_readings' = w.s_readings
    /\ s_reading_count' = w.s_reading_count
    /\ s_expected_count' = w.s_expected_count
    /\ s_received_count' = w.s_received_count
    /\ s_receiving_data' = w.s_receiving_data
    /\ s_bg_units' = w.s_bg_units
    /\ s_is_mmol' = w.s_is_mmol
    /\ s_invert_y' = w.s_invert_y
    /\ s_status_text' = w.s_status_text
    /\ dirty' = w.dirty
    /\ oob' = w.oob
    /\ hdr' = w.hdr
    /\ nmsg' = w.nmsg
    /\ completions' = w.completions
    /\ published' = w.published

\* the statics as the program starts, lines 44-52
WatchStart ==
    /\ s_readings = WatchInit.s_readings
    /\ s_reading_count = WatchInit.s_reading_count
    /\ s_expected_count = WatchInit.s_expected_count
    /\ s_received_count = WatchInit.s_received_count
    /\ s_receiving_data = WatchInit.s_receiving_data
    /\ s_bg_units = WatchInit.s_bg_units
    /\ s_is_mmol = WatchInit.s_is_mmol
    /\ s_invert_y = WatchInit.s_invert_y
    /\ s_status_text = WatchInit.s_status_text
    /\ dirty = WatchInit.dirty
    /\ oob = WatchInit.oob
    /\ hdr = WatchInit.hdr
    /\ nmsg = WatchInit.nmsg
    /\ completions = WatchInit.completions
    /\ published = WatchInit.published

-----------------------------------------------------------------------------
(* Messages the watch is driven with in SpecRecv *)

R1 == [value |-> 1230, timestamp |-> 1700000000]
R2 == [value |-> -5,   timestamp |-> 37]

Enc(rs) == encodeReadingsToBytes([i \in 1 .. Len(rs) |-> rs[i].value],
                                 [i \in 1 .. Len(rs) |-> rs[i].timestamp])

FullPayload == Enc([i \in 1 .. MAX_READINGS |-> IF i % 2 = 1 THEN R1 ELSE R2])

\* payloads: none, one record, two records, one record and a stray byte
RecvPayloads == { << >>, Enc(<<R1>>), Enc(<<R1, R2>>), Enc(<<R2>>) \o <<7>> }

RecvStarts == {-1, 0, 35}

HeaderMsgs == { [NoMsg EXCEPT !.count = <<0>>,  !.units = <<"milligrams/dL">>, !.invert = <<0>>],
                [NoMsg EXCEPT !.count = <<2>>,  !.units = <<"mmol/L">>],
                [NoMsg EXCEPT !.count = <<37>>, !.units = <<"mg/dL">>] }

ChunkMsgs == { [NoMsg EXCEPT !.chunk = <<p>>, !.index = <<s>>] :
                  p \in RecvPayloads, s \in RecvStarts }
             \cup { [NoMsg EXCEPT !.chunk = <<FullPayload>>, !.index = <<0>>] }

ReadingMsgs == { [NoMsg EXCEPT !.index = <<i>>, !.value = <<R2.value>>,
                               !.timestamp = <<R2.timestamp>>] :
                  i \in {-1, 1, MAX_READINGS} }

\* a settings message: keys that no branch of the callback returns on
SettingsMsgs == { [NoMsg EXCEPT !.invert = <<1>>] }

-----------------------------------------------------------------------------
(* Phone, send side (index.js): sendGlucoseData and sendChunks.  A send cycle is
   one call of sendGlucoseData; its closures' variables are the cycle's record.
   Pebble.sendAppMessage puts a message in flight and later runs exactly one of
   its two callbacks; setTimeout puts a timer in `timers`. *)

\* Math.round(x) for x = num / den, den > 0: floor(x + 1/2)
RoundDiv(num, den) == (2 * num + den) \div (2 * den)

\* convertBGValue, lines 28-33
convertBGValue(value, units) ==
    IF units = "mmol/L"
    THEN RoundDiv(value * 10 * 10000, MMOL_CONVERSION_FACTOR_E4)
    ELSE value * 10

NewCycle == [ started     |-> FALSE,
              values      |-> << >>,
              timestamps  |-> << >>,
              inflight    |-> {},      \* sends whose callback has not run yet
              timers      |-> {},      \* pending setTimeout retries
              sent        |-> << >>,   \* every message handed to sendAppMessage
              headerAcked |-> FALSE,
              console     |-> "" ]     \* the cycle's closing console line

\* Pebble.sendAppMessage(msg, success, failure): the closure variables the two
\* callbacks use travel with the message
sendAppMessage(cy, send) ==
    [cy EXCEPT !.inflight = @ \cup {send}, !.sent = Append(@, send.msg)]

\* sendChunks, lines 166-198, up to the sendAppMessage call
sendChunks(cy, startIndex, retries) ==
    IF startIndex >= Len(cy.values)
    THEN [cy EXCEPT !.console = "All data sent successfully"]
    ELSE LET remaining == Len(cy.values) - startIndex
             chunkSize == Min(remaining, MAX_READINGS_PER_CHUNK)
             chunkValues == SubSeq(cy.values, startIndex + 1, startIndex + chunkSize)
             chunkTimestamps == SubSeq(cy.timestamps, startIndex + 1, startIndex + chunkSize)
             bytes == encodeReadingsToBytes(chunkValues, chunkTimestamps)
             msg == [NoMsg EXCEPT !.chunk = <<bytes>>, !.index = <<startIndex>>]
         IN sendAppMessage(cy, [kind |-> "chunk", msg |-> msg, startIndex |-> startIndex,
                                chunkSize |-> chunkSize, retries |-> retries])

\* a slip in the next start index: the next chunk overlaps the one just sent
onChunkSent_overlap(cy, send) == sendChunks(cy, send.startIndex + send.chunkSize - 1, 0)

\* success callback of a chunk send, lines 184-187
onChunkSent(cy, send) == sendChunks(cy, send.startIndex + send.chunkSize, 0)

\* `retries <= 3` in place of `retries < 3`
onChunkFailed_le(cy, send) ==
    IF send.retries <= MAX_CHUNK_RETRIES
    THEN [cy EXCEPT !.timers = @ \cup {[startIndex |-> send.startIndex,
                                        retries |-> send.retries + 1]}]
    ELSE [cy EXCEPT !.console = "Max retries reached"]

\* the retry is scheduled on every failure, the bound only logs
onChunkFailed_fallthrough(cy, send) ==
    LET cy1 == [cy EXCEPT !.timers = @ \cup {[startIndex |-> send.startIndex,
                                              retries |-> send.retries + 1]}]
    IN IF send.retries < MAX_CHUNK_RETRIES THEN cy1
       ELSE [cy1 EXCEPT !.console = "Max retries reached"]

\* the retry starts one reading further on
onChunkFailed_skip(cy, send) ==
    IF send.retries < MAX_CHUNK_RETRIES
    THEN [cy EXCEPT !.timers = @ \cup {[startIndex |-> send.startIndex + 1,
                                        retries |-> send.retries + 1]}]
    ELSE [cy EXCEPT !.console = "Max retries reached"]

\* failure callback of a chunk send, lines 188-197
onChunkFailed(cy, send) ==
    IF send.retries < MAX_CHUNK_RETRIES
    THEN [cy EXCEPT !.timers = @ \cup {[startIndex |-> send.startIndex,
                                        retries |-> send.retries + 1]}]
    ELSE [cy EXCEPT !.console = "Max retries reached"]

\* success callback of the header send, lines 154-157
onHeaderSent(cy, send) == sendChunks([cy EXCEPT !.headerAcked = TRUE], 0, 0)

\* the failure callback goes on to the chunks like the success callback
onHeaderFailed_proceed(cy, send) ==
    sendChunks([cy EXCEPT !.console = "Failed to send BG count"], 0, 0)

\* failure callback of the header send, lines 158-160
onHeaderFailed(cy, send) == [cy EXCEPT !.console = "Failed to send BG count"]

\* the values go out as they are in the cache
sendGlucoseData_unconverted(cy, cache, settingsUnits) ==
    LET bgUnits == IF settingsUnits = "" THEN "mg/dL" ELSE settingsUnits
        count == Min(Len(cache), MAX_READINGS)
        cy1 == [cy EXCEPT !.started = TRUE,
                          !.values = [i \in 1 .. count |-> cache[i].v],
                          !.timestamps = [i \in 1 .. count |-> cache[i].t]]
        msg == [NoMsg EXCEPT !.count = <<count>>, !.units = <<bgUnits>>]
    IN sendAppMessage(cy1, [kind |-> "header", msg |-> msg, startIndex |-> 0,
                            chunkSize |-> 0, retries |-> 0])

\* sendGlucoseData, lines 128-161
sendGlucoseData(cy, cache, settingsUnits) ==
    IF Len(cache) = 0
    THEN [cy EXCEPT !.started = TRUE, !.console = "No readings to send"]
    ELSE LET bgUnits == IF settingsUnits = "" THEN "mg/dL" ELSE settingsUnits
             count == Min(Len(cache), MAX_READINGS)
             cy1 == [cy EXCEPT !.started = TRUE,
                               !.values = [i \in 1 .. count |-> convertBGValue(cache[i].v, bgUnits)],
                               !.timestamps = [i \in 1 .. count |-> cache[i].t]]
             msg == [NoMsg EXCEPT !.count = <<count>>, !.units = <<bgUnits>>]
         IN sendAppMessage(cy1, [kind |-> "header", msg |-> msg, startIndex |-> 0,
                                 chunkSize |-> 0, retries |-> 0])

\* caches handed to sendGlucoseData: newest first, 5 minutes apart; 37 entries fill
\* the 3-hour retention window
SendNow == R1.timestamp

CacheOfLen(n) == [i \in 1 .. n |-> [v |-> 99 + i, t |-> SendNow - 300 * (i - 1)]]

SendCaches == { CacheOfLen(0), CacheOfLen(2), CacheOfLen(MAX_READINGS + 1) }

Cycles == 1 .. MaxCycles

SendIdle ==
    /\ appSettings = ""
    /\ cyc = [c \in Cycles |-> NewCycle]

SendStart ==
    /\ appSettings \in {"", "mmol/L"}
    /\ cyc = [c \in Cycles |-> NewCycle]

StartCycle(c) == \E cache \in SendCaches :
    /\ ~cyc[c].started
    /\ \A d \in Cycles : d < c => cyc[d].started
    /\ cyc' = [cyc EXCEPT ![c] = sendGlucoseData(cyc[c], cache, appSettings)]
    /\ UNCHANGED << appSettings, watchVars, dexVars, cacheVars, codecVars, renderVars, linkVars, fetchVars >>

HeaderAck(c) == \E send \in cyc[c].inflight :
    /\ send.kind = "header"
    /\ cyc' = [cyc EXCEPT ![c] = onHeaderSent([cyc[c] EXCEPT !.inflight = @ \ {send}], send)]
    /\ UNCHANGED << appSettings, watchVars, dexVars, cacheVars, codecVars, renderVars, linkVars, fetchVars >>

HeaderNack(c) == \E send \in cyc[c].inflight :
    /\ send.kind = "header"
    /\ cyc' = [cyc EXCEPT ![c] = onHeaderFailed([cyc[c] EXCEPT !.inflight = @ \ {send}], send)]
    /\ UNCHANGED << appSettings, watchVars, dexVars, cacheVars, codecVars, renderVars, linkVars, fetchVars >>

ChunkAck(c) == \E send \in cyc[c].inflight :
    /\ send.kind = "chunk"
    /\ cyc' = [cyc EXCEPT ![c] = onChunkSent([cyc[c] EXCEPT !.inflight = @ \ {send}], send)]
    /\ UNCHANGED << appSettings, watchVars, dexVars, cacheVars, codecVars, renderVars, linkVars, fetchVars >>

ChunkNack(c) == \E send \in cyc[c].inflight :
    /\ send.kind = "chunk"
    /\ cyc' = [cyc EXCEPT ![c] = onChunkFailed([cyc[c] EXCEPT !.inflight = @ \ {send}], send)]
    /\ UNCHANGED << appSettings, watchVars, dexVars, cacheVars, codecVars, renderVars, linkVars, fetchVars >>

\* the 500 ms timer of line 191 fires
RetryTimer(c) == \E t \in cyc[c].timers :
    /\ cyc' = [cyc EXCEPT ![c] = sendChunks([cyc[c] EXCEPT !.timers = @ \ {t}],
                                            t.startIndex, t.retries)]
    /\ UNCHANGED << appSettings, watchVars, dexVars, cacheVars, codecVars, renderVars, linkVars, fetchVars >>

-----------------------------------------------------------------------------
(* Phone, Dexcom client (dexcom.js).  The instance is one record; an XMLHttpRequest
   that was sent and whose handler has not run yet is a record in `xhr`, carrying
   the closure variables its handlers use. *)

Null == "<null>"

Sentinel == "00000000-0000-0000-0000-000000000000"

\* !token
Falsy(token) == token \in {Null, ""}

\* the constructor, lines 43-53; retryCount is undefined (-1 here) until
\* _handleServerError first runs
DexNew == [ accountId    |-> Null,
            sessionId    |-> Null,
            retryCount   |-> -1,
            hasOnError   |-> FALSE,
            started      |-> FALSE,
            xhr          |-> {},
            \* observation only
            requests     |-> << >>,    \* kinds of the requests sent, in order
            console      |-> << >>,    \* console.error lines
            onErrorCalls |-> << >>,    \* messages handed to onError
            results      |-> << >>,    \* arguments handed to onResults
            persisted    |-> << >>,    \* token pairs onResults wrote to localStorage
            stored       |-> [accountId |-> Null, sessionId |-> Null],
                                       \* localStorage dexcom_account_id / _session_id
            reauths      |-> 0,        \* re-authentications started on a session error
            sessionErrs  |-> 0 ]       \* session-invalid responses handled

\* req.send(...)
xhrSend(d, req) == [d EXCEPT !.xhr = @ \cup {req}, !.requests = Append(@, req.kind)]

\* console.error(msg)
LogError(d, msg) == [d EXCEPT !.console = Append(@, msg)]

\* console.error(msg); if (self.onError) self.onError(msg)
RaiseError(d, msg) ==
    [d EXCEPT !.console = Append(@, msg),
              !.onErrorCalls = IF d.hasOnError THEN Append(@, msg) ELSE @]

\* trimQuotes, lines 75-77: a token body is the token between double quotes
trimQuotes(body) == body.text

TokenBody(token) == [quoted |-> TRUE, text |-> token]

\* _fetchGlucoseReadings, lines 328-387, up to req.send
fetchGlucoseReadings(d, minutes, maxCount) ==
    xhrSend(d, [kind |-> "readings", cont |-> "none", sessionId |-> d.sessionId,
                minutes |-> minutes, maxCount |-> maxCount])

\* _getSessionId, lines 245-300, up to loginReq.send; cont names the callback
getSessionId(d, cont, minutes, maxCount) ==
    xhrSend(d, [kind |-> "session", cont |-> cont, sessionId |-> d.sessionId,
                minutes |-> minutes, maxCount |-> maxCount])

\* _getAccountId, lines 199-239, up to req.send; its callback is always
\* function() { self._getSessionId(callback) } (line 178-181)
getAccountId(d, cont, minutes, maxCount) ==
    xhrSend(d, [kind |-> "account", cont |-> cont, sessionId |-> d.sessionId,
                minutes |-> minutes, maxCount |-> maxCount])

\* The two callbacks handed to authenticate:
\*   "fetch"       function() { self._fetchGlucoseReadings(minutes, maxCount) }  (314-316)
\*   "getReadings" function() { self.getGlucoseReadings(minutes, maxCount) }     (427-429)
RECURSIVE authenticate(_, _, _, _)

\* getGlucoseReadings, lines 307-321
getGlucoseReadings(d, minutes, maxCount) ==
    IF Falsy(d.sessionId)
    THEN authenticate(d, "fetch", minutes, maxCount)
    ELSE fetchGlucoseReadings(d, minutes, maxCount)

RunCallback(d, cont, minutes, maxCount) ==
    IF cont = "fetch"
    THEN fetchGlucoseReadings(d, minutes, maxCount)
    ELSE getGlucoseReadings(d, minutes, maxCount)

\* authenticate, lines 171-193
authenticate(d, cont, minutes, maxCount) ==
    IF Falsy(d.accountId) THEN getAccountId(d, cont, minutes, maxCount)
    ELSE IF Falsy(d.sessionId) THEN getSessionId(d, cont, minutes, maxCount)
    ELSE RunCallback(d, cont, minutes, maxCount)

\* the sentinel is reported and the callback runs all the same
onAccountLoad_continue(d, req, status, body) ==
    IF status = 200
    THEN LET d1 == [d EXCEPT !.accountId = trimQuotes(body)]
         IN IF d1.accountId = Sentinel
            THEN getSessionId(RaiseError(d1, "Invalid credentials"),
                              req.cont, req.minutes, req.maxCount)
            ELSE getSessionId(d1, req.cont, req.minutes, req.maxCount)
    ELSE RaiseError(d, "Error fetching account ID")

\* req.onload of _getAccountId, lines 204-222
onAccountLoad(d, req, status, body) ==
    IF status = 200
    THEN LET d1 == [d EXCEPT !.accountId = trimQuotes(body)]
         IN IF d1.accountId = Sentinel
            THEN RaiseError(d1, "Invalid credentials")
            ELSE getSessionId(d1, req.cont, req.minutes, req.maxCount)
    ELSE RaiseError(d, "Error fetching account ID")

\* loginReq.onload of _getSessionId, lines 254-273
onSessionLoad(d, req, status, body) ==
    IF status = 200
    THEN LET d1 == [d EXCEPT !.sessionId = trimQuotes(body)]
         IN IF d1.sessionId = Sentinel
            THEN RaiseError(d1, "Login failed")
            ELSE RunCallback(d1, req.cont, req.minutes, req.maxCount)
    ELSE RaiseError(d, "Error fetching session ID")

\* the onResults callback of index.js, lines 219-224: the instance's tokens go to
\* localStorage (the merge and the send that follow are the send side's)
onResults(d, items) ==
    [d EXCEPT !.results = Append(@, items),
              !.persisted = Append(@, [accountId |-> d.accountId,
                                       sessionId |-> d.sessionId]),
              !.stored = [accountId |-> d.accountId, sessionId |-> d.sessionId]]

\* an empty answer is reported and still handed to the results callback
handleGlucoseResponse_always(d, readings) ==
    IF ~readings.isArray \/ Len(readings.items) = 0
    THEN onResults(LogError(d, "No readings available"), << >>)
    ELSE onResults(d, readings.items)

\* _handleGlucoseResponse, lines 393-405
handleGlucoseResponse(d, readings) ==
    IF ~readings.isArray \/ Len(readings.items) = 0
    THEN LogError(d, "No readings available")
    ELSE onResults(d, readings.items)

\* `retryCount <= 2` in place of `retryCount < 2`
handleServerError_le(d, error, minutes, maxCount) ==
    LET d0 == IF d.retryCount \in {-1, 0} THEN [d EXCEPT !.retryCount = 0] ELSE d
    IN IF error.Code = "SessionIdNotFound" \/ error.Code = "SessionNotValid"
       THEN IF d0.retryCount <= MAX_SESSION_RETRIES
            THEN authenticate([d0 EXCEPT !.retryCount = @ + 1,
                                         !.sessionId = Null,
                                         !.reauths = @ + 1,
                                         !.sessionErrs = @ + 1],
                              "getReadings", minutes, maxCount)
            ELSE RaiseError([d0 EXCEPT !.retryCount = 0, !.sessionErrs = @ + 1],
                            "Session error, max retries reached")
       ELSE RaiseError([d0 EXCEPT !.retryCount = 0], "Server error")

\* a server error of another code reports and fetches again
handleServerError_retryOther(d, error, minutes, maxCount) ==
    LET d0 == IF d.retryCount \in {-1, 0} THEN [d EXCEPT !.retryCount = 0] ELSE d
    IN IF error.Code = "SessionIdNotFound" \/ error.Code = "SessionNotValid"
       THEN IF d0.retryCount < MAX_SESSION_RETRIES
            THEN authenticate([d0 EXCEPT !.retryCount = @ + 1,
                                         !.sessionId = Null,
                                         !.reauths = @ + 1,
                                         !.sessionErrs = @ + 1],
                              "getReadings", minutes, maxCount)
            ELSE RaiseError([d0 EXCEPT !.retryCount = 0, !.sessionErrs = @ + 1],
                            "Session error, max retries reached")
       ELSE getGlucoseReadings(RaiseError([d0 EXCEPT !.retryCount = 0], "Server error"),
                               minutes, maxCount)

\* _handleServerError, lines 413-440
handleServerError(d, error, minutes, maxCount) ==
    LET d0 == IF d.retryCount \in {-1, 0} THEN [d EXCEPT !.retryCount = 0] ELSE d
    IN IF error.Code = "SessionIdNotFound" \/ error.Code = "SessionNotValid"
       THEN IF d0.retryCount < MAX_SESSION_RETRIES
            THEN authenticate([d0 EXCEPT !.retryCount = @ + 1,
                                         !.sessionId = Null,
                                         !.reauths = @ + 1,
                                         !.sessionErrs = @ + 1],
                              "getReadings", minutes, maxCount)
            ELSE RaiseError([d0 EXCEPT !.retryCount = 0, !.sessionErrs = @ + 1],
                            "Session error, max retries reached")
       ELSE RaiseError([d0 EXCEPT !.retryCount = 0], "Server error")

\* req.onload of _fetchGlucoseReadings, lines 341-356; a body that JSON.parse
\* rejects, or a reading formatReading throws on, ends in the catch
onReadingsLoad(d, req, status, body) ==
    IF body.malformed /\ status \in {200, 500}
    THEN LogError(d, "Error processing response")
    ELSE IF status = 200 THEN handleGlucoseResponse(d, body)
    ELSE IF status = 500 THEN handleServerError(d, body, req.minutes, req.maxCount)
    ELSE LogError(d, "Failed to get readings")

\* what the server may answer
AccountBodies == { TokenBody("acct1"), TokenBody(Sentinel), TokenBody("") }

SessionBodies == { TokenBody("sess1"), TokenBody(Sentinel), TokenBody("") }

ReadingsBody(isArray, items) ==
    [malformed |-> FALSE, isArray |-> isArray, items |-> items, Code |-> ""]

ErrorBody(code) == [malformed |-> FALSE, isArray |-> FALSE, items |-> << >>, Code |-> code]

MalformedBody == [malformed |-> TRUE, isArray |-> FALSE, items |-> << >>, Code |-> ""]

OkBodies == { ReadingsBody(TRUE, <<[Value |-> 120, WT |-> SendNow]>>),
              ReadingsBody(TRUE, << >>), ReadingsBody(FALSE, << >>), MalformedBody }

ErrorBodies == { ErrorBody("SessionIdNotFound"), ErrorBody("SessionNotValid"),
                 ErrorBody("InvalidArgument"), MalformedBody }

\* a full fetch and the shortest incremental one, as (minutes, maxCount)
FetchWindows == { <<180, 36>>, <<15, 4>> }

\* Math.ceil(num / den), den > 0
CeilDiv(num, den) == -((-num) \div den)

\* Math.floor in place of Math.ceil
FetchWindow_floor(cache, secs, ms) ==
    IF Len(cache) > 0
    THEN LET since == ((secs - cache[1].t) * 1000 + ms) \div 60000
             minutesSinceNewest == IF since < 10 THEN 10 ELSE since
             fetchMinutes == minutesSinceNewest + 5
             maxCount == Min((fetchMinutes \div 5) + 1, MAX_READINGS)
         IN << fetchMinutes, maxCount >>
    ELSE << 180, 36 >>

\* the arguments fetchGlucoseData hands to dex.getGlucoseReadings, index.js
\* 251-266; Date.now() is secs * 1000 + ms
FetchWindow(cache, secs, ms) ==
    IF Len(cache) > 0
    THEN LET since == CeilDiv((secs - cache[1].t) * 1000 + ms, 60000)
             minutesSinceNewest == IF since < 10 THEN 10 ELSE since
             fetchMinutes == minutesSinceNewest + 5
             maxCount == Min(CeilDiv(fetchMinutes, 5) + 1, MAX_READINGS)
         IN << fetchMinutes, maxCount >>
    ELSE << 180, 36 >>

\* the millisecond part of Date.now()
FetchMillis == {0, 999}

DexIdle == dex = DexNew

\* fetchGlucoseData, lines 216-249: the instance as constructed, with the tokens of
\* an earlier cycle restored or not.  index.js hands the constructor no onError;
\* the constructor takes one (line 43), so instances with and without are kept.
DexStart ==
    \E restored \in BOOLEAN, handler \in BOOLEAN :
        dex = [DexNew EXCEPT !.accountId = IF restored THEN "acct1" ELSE Null,
                             !.sessionId = IF restored THEN "sess0" ELSE Null,
                             !.stored = IF restored
                                        THEN [accountId |-> "acct1", sessionId |-> "sess0"]
                                        ELSE @,
                             !.hasOnError = handler]

Budget == Len(dex.requests) < MaxRequests

Done(req) == [dex EXCEPT !.xhr = @ \ {req}]

\* the try block of fetchGlucoseData, index.js lines 250-266, on the cache that
\* loadCache returned
DexGetReadings == \E ms \in FetchMillis :
    LET w == FetchWindow(glucose_cache, now, ms) IN
    /\ ~dex.started
    /\ dex' = getGlucoseReadings([dex EXCEPT !.started = TRUE], w[1], w[2])
    /\ UNCHANGED << watchVars, sendVars, cacheVars, codecVars, renderVars, linkVars, fetchVars >>

AccountLoad == \E req \in dex.xhr, status \in {200, 401}, body \in AccountBodies :
    /\ Budget /\ req.kind = "account"
    /\ status # 200 => body = TokenBody("")
    /\ dex' = onAccountLoad(Done(req), req, status, body)
    /\ UNCHANGED << watchVars, sendVars, cacheVars, codecVars, renderVars, linkVars, fetchVars >>

\* req.onerror and req.ontimeout of _getAccountId, lines 224-232
AccountFail == \E req \in dex.xhr, how \in {"Network error", "Timeout"} :
    /\ Budget /\ req.kind = "account"
    /\ dex' = RaiseError(Done(req), how \o " fetching account ID")
    /\ UNCHANGED << watchVars, sendVars, cacheVars, codecVars, renderVars, linkVars, fetchVars >>

SessionLoad == \E req \in dex.xhr, status \in {200, 401}, body \in SessionBodies :
    /\ Budget /\ req.kind = "session"
    /\ status # 200 => body = TokenBody("")
    /\ dex' = onSessionLoad(Done(req), req, status, body)
    /\ UNCHANGED << watchVars, sendVars, cacheVars, codecVars, renderVars, linkVars, fetchVars >>

\* loginReq.onerror and loginReq.ontimeout, lines 275-285
SessionFail == \E req \in dex.xhr, how \in {"Network error", "Timeout"} :
    /\ Budget /\ req.kind = "session"
    /\ dex' = RaiseError(Done(req), how \o " fetching session ID")
    /\ UNCHANGED << watchVars, sendVars, cacheVars, codecVars, renderVars, linkVars, fetchVars >>

\* the fallback timer of lines 288-293 aborts the request: no handler of it runs
SessionAbort == \E req \in dex.xhr :
    /\ Budget /\ req.kind = "session"
    /\ dex' = LogError(Done(req), "Request timeout: session ID fetch took too long")
    /\ UNCHANGED << watchVars, sendVars, cacheVars, codecVars, renderVars, linkVars, fetchVars >>

\* req.onerror and req.ontimeout of _fetchGlucoseReadings, lines 358-368
ReadingsFail == \E req \in dex.xhr, how \in {"Network error", "Timeout"} :
    /\ Budget /\ req.kind = "readings"
    /\ dex' = RaiseError(Done(req), how \o " fetching glucose readings")
    /\ UNCHANGED << watchVars, sendVars, cacheVars, codecVars, renderVars, linkVars, fetchVars >>

\* the fallback timer of lines 371-376
ReadingsAbort == \E req \in dex.xhr :
    /\ Budget /\ req.kind = "readings"
    /\ dex' = LogError(Done(req), "Request timeout: glucose readings fetch took too long")
    /\ UNCHANGED << watchVars, sendVars, cacheVars, codecVars, renderVars, linkVars, fetchVars >>

-----------------------------------------------------------------------------
(* Phone, reading cache (index.js): mergeCache.  A cache entry is {v, t}. *)

CACHE_DURATION == 10800

\* the two indexing loops, lines 70-78: byTimestamp[list[i].t] = list[i], a later
\* entry replacing an earlier one under the same key
RECURSIVE IndexByTimestamp(_, _, _)
IndexByTimestamp(byTimestamp, list, i) ==
    IF i > Len(list) THEN byTimestamp
    ELSE IndexByTimestamp([k \in DOMAIN byTimestamp \cup {list[i].t} |->
                              IF k = list[i].t THEN list[i] ELSE byTimestamp[k]],
                          list, i + 1)

\* for (var key in byTimestamp), lines 82-86: integer keys come in ascending order
RECURSIVE ForIn(_)
ForIn(keys) ==
    IF keys = {} THEN << >>
    ELSE LET k == CHOOSE x \in keys : \A y \in keys : x <= y
         IN <<k>> \o ForIn(keys \ {k})

\* a comparator that sorts ascending
CompareDesc_asc(a, b) == a.t - b.t

\* the comparator of line 89
CompareDesc(a, b) == b.t - a.t

\* merged.sort(compare): insertion of x behind every element that does not compare
\* after it
RECURSIVE InsertSorted(_, _)
InsertSorted(sorted, x) ==
    IF sorted = << >> THEN <<x>>
    ELSE IF CompareDesc(sorted[1], x) <= 0
         THEN <<sorted[1]>> \o InsertSorted(Tail(sorted), x)
         ELSE <<x>> \o sorted

RECURSIVE SortFrom(_, _)
SortFrom(list, i) ==
    IF i > Len(list) THEN << >>
    ELSE InsertSorted(SortFrom(list, i + 1), list[Len(list) - i + 1])

\* `>` in place of `>=`: the entry exactly at the cutoff is dropped
Retained_gt(entry, cutoff) == entry.t > cutoff

\* the cutoff test of line 95
Retained(entry, cutoff) == entry.t >= cutoff

\* the indexing loops with the arguments swapped: the cached entry wins
IndexBoth_cacheWins(cacheList, newReadings) ==
    IndexByTimestamp(IndexByTimestamp(<< >>, newReadings, 1), cacheList, 1)

\* lines 66-78
IndexBoth(cacheList, newReadings) ==
    IndexByTimestamp(IndexByTimestamp(<< >>, cacheList, 1), newReadings, 1)

\* the deduplication is left out: both lists are collected as they are
mergeCache_concat(cacheList, newReadings, clock) ==
    SelectSeq(SortFrom(cacheList \o newReadings, 1),
              LAMBDA e : Retained(e, clock - CACHE_DURATION))

\* mergeCache, lines 65-101; clock is Math.floor(Date.now() / 1000)
mergeCache(cacheList, newReadings, clock) ==
    LET byTimestamp == IndexBoth(cacheList, newReadings)
        keys == ForIn(DOMAIN byTimestamp)
        merged == [i \in 1 .. Len(keys) |-> byTimestamp[keys[i]]]
        sorted == SortFrom(merged, 1)
        cutoff == clock - CACHE_DURATION
    IN SelectSeq(sorted, LAMBDA e : Retained(e, cutoff))

\* entries the model merges: timestamps just outside the retention window of the
\* first clock value, on its edge, and inside it
TimeOut == SendNow - CACHE_DURATION - 1

TimeEdge == SendNow - CACHE_DURATION

TimeIn == SendNow

Entry(value, time) == [v |-> value, t |-> time]

Entries == { Entry(100, TimeOut), Entry(100, TimeEdge), Entry(110, TimeEdge),
             Entry(100, TimeIn), Entry(110, TimeIn) }

\* every list of at most n entries: unsorted lists and repeated timestamps included
ListsUpTo(n) == UNION { [1 .. k -> Entries] : k \in 0 .. n }

\* what loadCache may find under the storage key (lines 38-49 accept any array):
\* nothing, a cache as mergeCache leaves it, an unsorted one, one with a repeated
\* timestamp, and caches whose entries have expired
StoredCaches == { << >>,
                  << Entry(100, TimeIn), Entry(100, TimeEdge) >>,
                  << Entry(100, TimeEdge), Entry(110, TimeIn) >>,
                  << Entry(100, TimeIn), Entry(110, TimeIn) >>,
                  << Entry(100, TimeOut) >>,
                  << Entry(110, TimeIn), Entry(100, TimeOut) >> }

NoMerge == [done |-> FALSE, existing |-> << >>, incoming |-> << >>,
            clock |-> 0, result |-> << >>]

CacheIdle ==
    /\ glucose_cache = << >>
    /\ now = SendNow
    /\ lastMerge = NoMerge

\* loadCache returns whatever array the storage key holds (lines 38-49)
CacheStart ==
    /\ glucose_cache \in StoredCaches
    /\ now = SendNow
    /\ lastMerge = NoMerge

\* a fetch cycle starts on the stored cache, at SendNow or 20 minutes and a second
\* later
FetchClocks == {SendNow, SendNow + 20 * 60 + 1}

FetchStart ==
    /\ glucose_cache \in StoredCaches
    /\ now \in FetchClocks
    /\ lastMerge = NoMerge

\* the merge step of the onResults callback, lines 235-236:
\* cache = mergeCache(cache, newEntries); saveCache(cache)
MergeResults == \E newEntries \in ListsUpTo(MaxList) :
    /\ glucose_cache' = mergeCache(glucose_cache, newEntries, now)
    /\ lastMerge' = [done |-> TRUE, existing |-> glucose_cache, incoming |-> newEntries,
                     clock |-> now, result |-> glucose_cache']
    /\ UNCHANGED << now, watchVars, sendVars, dexVars, codecVars, renderVars, linkVars, fetchVars >>

\* five minutes pass between two fetch cycles
ClockTick ==
    /\ now < SendNow + 300 * MaxTicks
    /\ now' = now + 300
    /\ UNCHANGED << glucose_cache, lastMerge, watchVars, sendVars, dexVars, codecVars, renderVars, linkVars, fetchVars >>

-----------------------------------------------------------------------------
(* The wire codec end to end: encodeReadingsToBytes on the phone, the chunk decode of
   inbox_received_callback on the watch *)

Wide(value, hi, lo) == [value |-> value, hi |-> hi, lo |-> lo]

\* readings at the ends of the two ranges; 1700000000 = 25939 * 2^16 + 61696
CodecReadings == { Wide(1230, 25939, 61696),
                   Wide(-5, 0, 37),
                   Wide(-32768, 0, 0),
                   Wide(32767, Pow2_16 \div 2 - 1, Pow2_16 - 1),
                   Wide(0, Pow2_16 \div 2, 0),
                   Wide(-1, Pow2_16 - 1, Pow2_16 - 1),
                   Wide(256, 1, 256) }

CodecLists == UNION { [1 .. k -> CodecReadings] : k \in 0 .. MaxCodec }

CodecStart ==
    /\ codecIn \in CodecLists
    /\ wire = [done |-> FALSE, bytes |-> << >>]
    /\ decoded = [done |-> FALSE, count |-> 0, slots |-> << >>]

\* the phone encodes the list
Encode ==
    /\ ~wire.done
    /\ wire' = [done |-> TRUE, bytes |-> EncodeFrom(codecIn, 1)]
    /\ UNCHANGED << codecIn, decoded, watchVars, sendVars, dexVars, cacheVars, renderVars, linkVars, fetchVars >>

\* the watch decodes the bytes as a chunk at start index 0
Decode ==
    /\ wire.done /\ ~decoded.done
    /\ LET w == ChunkLoop(WatchInit, wire.bytes, 0, "none")
       IN decoded' = [done |-> TRUE, count |-> w.s_received_count,
                      slots |-> [i \in 1 .. w.s_received_count |-> w.s_readings[i - 1]]]
    /\ UNCHANGED << codecIn, wire, watchVars, sendVars, dexVars, cacheVars, renderVars, linkVars, fetchVars >>

-----------------------------------------------------------------------------
(* Specifications.  SpecRecv: the watch under arbitrary messages.  SpecSend: send
   cycles whose sends succeed or fail at the channel's will.  SpecDex: one Dexcom
   instance against a server that may answer anything. *)

CodecIdle ==
    /\ codecIn = << >>
    /\ wire = [done |-> FALSE, bytes |-> << >>]
    /\ decoded = [done |-> FALSE, count |-> 0, slots |-> << >>]

RenderIdle == canvas = BlankCanvas

\* fetch cycles (calls of fetchGlucoseData) in one run; they may overlap
FetchCycles == {1, 2}

\* the closure of a call of fetchGlucoseData that has not happened: `cache` is its
\* local variable, `saved` what it handed to saveCache (observation only)
NoFetch == [phase |-> "idle", event |-> "", cache |-> << >>, saved |-> << >>]

LinkIdle == channel = << >>

FetchesIdle == fetches = [f \in FetchCycles |-> NoFetch]

RecvInit == WatchStart /\ SendIdle /\ DexIdle /\ CacheIdle /\ CodecIdle /\ RenderIdle /\ LinkIdle /\ FetchesIdle

RecvHeader == \E m \in HeaderMsgs :
    /\ Has(m.count)
    /\ SetWatch(inbox_received_callback(Watch, m, "none"))
    /\ UNCHANGED << sendVars, dexVars, cacheVars, codecVars, renderVars, linkVars, fetchVars >>

RecvChunk == \E m \in ChunkMsgs, victim \in OobVictims :
    /\ nmsg < MaxMsgs
    /\ SetWatch(inbox_received_callback(Watch, m, victim))
    /\ UNCHANGED << sendVars, dexVars, cacheVars, codecVars, renderVars, linkVars, fetchVars >>

RecvReading == \E m \in ReadingMsgs :
    /\ nmsg < MaxMsgs
    /\ SetWatch(inbox_received_callback(Watch, m, "none"))
    /\ UNCHANGED << sendVars, dexVars, cacheVars, codecVars, renderVars, linkVars, fetchVars >>

RecvSettings == \E m \in SettingsMsgs :
    /\ nmsg < MaxMsgs
    /\ SetWatch(inbox_received_callback(Watch, m, "none"))
    /\ UNCHANGED << sendVars, dexVars, cacheVars, codecVars, renderVars, linkVars, fetchVars >>

\* the minute tick; tm_min is the minute of the hour
Tick == \E tm_min \in {0, 3} :
    /\ tm_min % 5 = 0
    /\ SetWatch(tick_handler(Watch))
    /\ UNCHANGED << sendVars, dexVars, cacheVars, codecVars, renderVars, linkVars, fetchVars >>

Redraw ==
    /\ dirty
    /\ SetWatch(chart_layer_update_proc(Watch))
    /\ UNCHANGED << sendVars, dexVars, cacheVars, codecVars, renderVars, linkVars, fetchVars >>

RecvNext == RecvHeader \/ RecvChunk \/ RecvReading \/ RecvSettings \/ Tick \/ Redraw

SpecRecv == RecvInit /\ [][RecvNext]_vars

SendInit == WatchStart /\ SendStart /\ DexIdle /\ CacheIdle /\ CodecIdle /\ RenderIdle /\ LinkIdle /\ FetchesIdle

SendNext == \E c \in Cycles :
    \/ StartCycle(c)
    \/ HeaderAck(c)
    \/ HeaderNack(c)
    \/ ChunkAck(c)
    \/ ChunkNack(c)
    \/ RetryTimer(c)

SpecSend == SendInit /\ [][SendNext]_vars

\* the entries the onResults callback builds, index.js 227-233 (WT is carried in
\* whole seconds: t = Math.floor(getTime() / 1000))
NewEntries(items) == [i \in 1 .. Len(items) |-> [v |-> items[i].Value, t |-> items[i].WT]]

\* req.onload of _fetchGlucoseReadings; when it reaches the onResults callback,
\* the callback goes on (index.js 235-239) to merge into the cache the cycle
\* loaded, save it and hand it to sendGlucoseData
ReadingsLoad == \E req \in dex.xhr, status \in {200, 500, 401} :
    \E body \in (IF status = 200 THEN OkBodies
                 ELSE IF status = 500 THEN ErrorBodies ELSE {MalformedBody}) :
        LET d1 == onReadingsLoad(Done(req), req, status, body) IN
        /\ Budget /\ req.kind = "readings"
        /\ dex' = d1
        /\ IF Len(d1.results) > Len(dex.results)
           THEN LET merged == mergeCache(glucose_cache, NewEntries(d1.results[Len(d1.results)]), now)
                IN /\ glucose_cache' = merged
                   /\ lastMerge' = [done |-> TRUE, existing |-> glucose_cache,
                                    incoming |-> NewEntries(d1.results[Len(d1.results)]),
                                    clock |-> now, result |-> merged]
                   /\ cyc' = [cyc EXCEPT ![1] = sendGlucoseData(cyc[1], merged, appSettings)]
                   /\ UNCHANGED << now, appSettings >>
           ELSE UNCHANGED << sendVars, cacheVars >>
        /\ UNCHANGED << watchVars, codecVars, renderVars, linkVars, fetchVars >>

DexInit == WatchStart /\ SendIdle /\ DexStart /\ FetchStart /\ CodecIdle /\ RenderIdle /\ LinkIdle /\ FetchesIdle

DexNext ==
    \/ DexGetReadings
    \/ AccountLoad \/ AccountFail
    \/ SessionLoad \/ SessionFail \/ SessionAbort
    \/ ReadingsLoad \/ ReadingsFail \/ ReadingsAbort

SpecDex == DexInit /\ [][DexNext]_vars

MergeInit == WatchStart /\ SendIdle /\ DexIdle /\ CacheStart /\ CodecIdle /\ RenderIdle /\ LinkIdle /\ FetchesIdle

MergeNext == MergeResults \/ ClockTick

SpecMerge == MergeInit /\ [][MergeNext]_vars

CodecInit == WatchStart /\ SendIdle /\ DexIdle /\ CacheIdle /\ CodecStart /\ RenderIdle /\ LinkIdle /\ FetchesIdle

CodecNext == Encode \/ Decode

SpecCodec == CodecInit /\ [][CodecNext]_vars

\* SpecRender: the renderer on a buffer a receive cycle has just published
MaxBuf == 3

RenderValues == {-32768, 30, 60, 80, 220, 500, 32767}

\* seconds between consecutive samples: the 5-minute sampling, or an hour
RenderSteps == {5 * 60, 60 * 60}

RECURSIVE ValueLists(_)
ValueLists(n) ==
    IF n = 0 THEN {<< >>}
    ELSE ValueLists(n - 1)
           \cup {Append(l, v) : l \in {x \in ValueLists(n - 1) : Len(x) = n - 1},
                                v \in RenderValues}

\* newest first, as the phone sends them
RenderBuffers ==
    { [i \in 1 .. Len(vs) |-> [value |-> vs[i],
                               timestamp |-> R1.timestamp - step * (i - 1)]] :
        vs \in ValueLists(MaxBuf) \ {<< >>}, step \in RenderSteps }

WatchIs(w) ==
    /\ s_readings = w.s_readings
    /\ s_reading_count = w.s_reading_count
    /\ s_expected_count = w.s_expected_count
    /\ s_received_count = w.s_received_count
    /\ s_receiving_data = w.s_receiving_data
    /\ s_bg_units = w.s_bg_units
    /\ s_is_mmol = w.s_is_mmol
    /\ s_invert_y = w.s_invert_y
    /\ s_status_text = w.s_status_text
    /\ dirty = w.dirty
    /\ oob = w.oob
    /\ hdr = w.hdr
    /\ nmsg = w.nmsg
    /\ completions = w.completions
    /\ published = w.published

\* the watch after a header and the one chunk of a send cycle
RenderStart == \E buf \in RenderBuffers, inv \in {0, 1}, units \in {"mg/dL", "mmol/L"} :
    LET header == [NoMsg EXCEPT !.count = <<Len(buf)>>, !.invert = <<inv>>,
                                !.units = <<units>>]
        chunk  == [NoMsg EXCEPT !.chunk = <<Enc(buf)>>, !.index = <<0>>]
    IN /\ WatchIs(inbox_received_callback(
                     inbox_received_callback(WatchInit, header, "none"),
                     chunk, "none"))
       /\ canvas = BlankCanvas

\* the framework redraws the dirty layer
Render ==
    /\ dirty
    /\ SetWatch(chart_layer_update_proc(Watch))
    /\ canvas' = Draw(Watch)
    /\ UNCHANGED << sendVars, dexVars, cacheVars, codecVars, linkVars, fetchVars >>

RenderInit == RenderStart /\ SendIdle /\ DexIdle /\ CacheIdle /\ CodecIdle /\ LinkIdle /\ FetchesIdle

RenderNext == Render \/ Tick

SpecRender == RenderInit /\ [][RenderNext]_vars

\* SpecLink: send cycles whose messages travel to the watch.  The channel either
\* delivers a message (inbox_received_callback runs on the watch) and then runs
\* the send's success callback, or runs the failure callback, with the message
\* delivered (the acknowledgement was lost) or not.
MaxFails == 2

LinkCycles == {1, 2}

LinkCaches == { CacheOfLen(2), CacheOfLen(MAX_READINGS + 1) }

\* the calls of sendAppMessage that took cycle c from `before` to `after`
Sends(c, before, after) ==
    [k \in 1 .. Len(after.sent) - Len(before.sent) |->
        LET m == after.sent[Len(before.sent) + k]
        IN [ev |-> "send", c |-> c, msg |-> m, delivered |-> FALSE, cache |-> << >>]]

Outcome(ev, c, send, delivered) ==
    [ev |-> ev, c |-> c, msg |-> send.msg, delivered |-> delivered, cache |-> << >>]

\* the call sendGlucoseData(cache) that starts cycle c
Started(c, cache) ==
    [ev |-> "start", c |-> c, msg |-> NoMsg, delivered |-> FALSE, cache |-> cache]

Fails == Cardinality({i \in 1 .. Len(channel) : channel[i].ev = "nack"})

SetCycle(c, cy, events) ==
    /\ cyc' = [cyc EXCEPT ![c] = cy]
    /\ channel' = channel \o events \o Sends(c, cyc[c], cy)

LinkStart(c) == \E cache \in LinkCaches :
    /\ ~cyc[c].started
    /\ \A d \in LinkCycles : d < c => cyc[d].started
    /\ SetCycle(c, sendGlucoseData(cyc[c], cache, appSettings), << Started(c, cache) >>)
    /\ UNCHANGED << appSettings, watchVars, dexVars, cacheVars, codecVars, renderVars, fetchVars >>

\* the message reaches the watch and the acknowledgement reaches the phone
LinkAck(c) == \E send \in cyc[c].inflight :
    LET cy == [cyc[c] EXCEPT !.inflight = @ \ {send}]
    IN /\ SetWatch(inbox_received_callback(Watch, send.msg, "none"))
       /\ SetCycle(c, IF send.kind = "header" THEN onHeaderSent(cy, send)
                                              ELSE onChunkSent(cy, send),
                   << Outcome("ack", c, send, TRUE) >>)
       /\ UNCHANGED << appSettings, dexVars, cacheVars, codecVars, renderVars, fetchVars >>

\* the send fails: the message was lost, or its acknowledgement was
LinkNack(c) == \E send \in cyc[c].inflight, delivered \in BOOLEAN :
    LET cy == [cyc[c] EXCEPT !.inflight = @ \ {send}]
    IN /\ Fails < MaxFails
       /\ IF delivered
          THEN SetWatch(inbox_received_callback(Watch, send.msg, "none"))
          ELSE UNCHANGED watchVars
       /\ SetCycle(c, IF send.kind = "header" THEN onHeaderFailed(cy, send)
                                              ELSE onChunkFailed(cy, send),
                   << Outcome("nack", c, send, delivered) >>)
       /\ UNCHANGED << appSettings, dexVars, cacheVars, codecVars, renderVars, fetchVars >>

\* the 500 ms timer of line 191 fires
LinkTimer(c) == \E t \in cyc[c].timers :
    /\ SetCycle(c, sendChunks([cyc[c] EXCEPT !.timers = @ \ {t}],
                              t.startIndex, t.retries), << >>)
    /\ UNCHANGED << appSettings, watchVars, dexVars, cacheVars, codecVars, renderVars, fetchVars >>

LinkInit == WatchStart /\ SendStart /\ DexIdle /\ CacheIdle /\ CodecIdle /\ RenderIdle
               /\ LinkIdle /\ FetchesIdle

LinkNext == \E c \in LinkCycles :
    LinkStart(c) \/ LinkAck(c) \/ LinkNack(c) \/ LinkTimer(c)

SpecLink == LinkInit /\ [][LinkNext]_vars

\* SpecFetch: fetch cycles started by the three events of index.js 272-291.  The
\* Dexcom client of a cycle is seen from outside: its chain of requests ends
\* either in the results callback, once and with a non-empty list, or in an
\* error (SpecDex).
FetchEvents == {"ready", "appmessage", "webviewclosed"}

\* what the server may answer, newest first: its readings before and after the
\* sensor's next sample (an answer computed earlier may arrive later)
ServerReadings ==
    { << [Value |-> 120, WT |-> SendNow - 300] >>,
      << [Value |-> 125, WT |-> SendNow], [Value |-> 120, WT |-> SendNow - 300] >> }

\* an event listener runs fetchGlucoseData, lines 203-270: the cycle loads the
\* cache into its local variable and its client starts the requests
FetchBegin(f) == \E event \in FetchEvents :
    /\ fetches[f].phase = "idle"
    /\ \A g \in FetchCycles : fetches[g].event # event
    /\ fetches' = [fetches EXCEPT ![f] = [phase |-> "pending", event |-> event,
                                          cache |-> glucose_cache, saved |-> << >>]]
    /\ UNCHANGED << watchVars, sendVars, dexVars, cacheVars, codecVars, renderVars, linkVars >>

\* the results callback of the cycle, lines 219-240: store the tokens, merge the
\* new entries into the cycle's local cache, save it, send it
FetchResults(f) == \E items \in ServerReadings :
    LET merged == mergeCache(fetches[f].cache, NewEntries(items), now) IN
    /\ fetches[f].phase = "pending"
    /\ dex' = [dex EXCEPT !.stored = [accountId |-> "acct1", sessionId |-> "sess1"]]
    /\ glucose_cache' = merged
    /\ lastMerge' = [done |-> TRUE, existing |-> fetches[f].cache,
                     incoming |-> NewEntries(items), clock |-> now, result |-> merged]
    /\ cyc' = [cyc EXCEPT ![f] = sendGlucoseData(cyc[f], merged, appSettings)]
    /\ fetches' = [fetches EXCEPT ![f].phase = "done", ![f].cache = merged,
                                  ![f].saved = merged]
    /\ UNCHANGED << now, appSettings, watchVars, codecVars, renderVars, linkVars >>

\* the client's chain ends in an error: the results callback does not run
FetchError(f) ==
    /\ fetches[f].phase = "pending"
    /\ fetches' = [fetches EXCEPT ![f].phase = "failed"]
    /\ UNCHANGED << watchVars, sendVars, dexVars, cacheVars, codecVars, renderVars, linkVars >>

FetchInit == WatchStart /\ SendIdle /\ DexIdle /\ FetchStart /\ CodecIdle /\ RenderIdle
                /\ LinkIdle /\ FetchesIdle

FetchNext == \E f \in FetchCycles : FetchBegin(f) \/ FetchResults(f) \/ FetchError(f)

SpecFetch == FetchInit /\ [][FetchNext]_vars

-----------------------------------------------------------------------------
(* Claims about the watch, checked under SpecRecv *)

\* a receive cycle the phone could have started: a header announcing at least one
\* reading was received, and no store has left the array since the program started
InCycle == hdr /\ s_expected_count > 0 /\ oob = {}

\* C1 (chunk idempotence): in every state reached after a header, for every chunk
\* message m, delivering m twice leaves s_received_count and every slot as they
\* are after delivering m once.  (Stated for the states InCycle, where a violation
\* rests neither on an empty cycle nor on an out-of-bounds store.)
C1_ChunkIdempotence ==
    InCycle =>
        \A m \in ChunkMsgs :
            LET once  == inbox_received_callback(Watch, m, "none")
                twice == inbox_received_callback(once, m, "none")
            IN /\ twice.s_received_count = once.s_received_count
               /\ twice.s_readings = once.s_readings

\* C2 (completion trigger): between one header and the next the completion block
\* (publish, s_receiving_data = false, update_chart) runs at most once.
C2_CompletionOnce == InCycle => completions <= 1

\* C3 (buffer invariant): s_received_count <= s_expected_count <= MAX_READINGS in
\* every state reached by header, chunk and single-record messages.
C3_BufferInvariant ==
    InCycle => /\ s_received_count <= s_expected_count
               /\ s_expected_count <= MAX_READINGS

\* C4 (slot bounds): no chunk message, whatever its start index and length, makes
\* the callback store outside slots [0, MAX_READINGS).
C4_SlotBounds == oob = {}

\* C5 (no stale or partial data): whenever the chart is about to be redrawn, the
\* slots [0, s_reading_count) it draws are the reading set published by the most
\* recently completed receive cycle.
C5_RenderShowsPublished ==
    (dirty /\ oob = {}) => DrawnReadings(Watch) = published

\* the values of the reading set on the chart
PublishedValues == [i \in 1 .. Len(published.slots) |-> published.slots[i].value]

ValuesOf(l) == {l[i] : i \in 1 .. Len(l)}

\* C21 (auto-scale bound): whenever a chart of a non-empty buffer is on the screen,
\* the range [min_bg, max_bg] it was scaled to contains every value of the buffer
\* and is at least BG_MIN_RANGE = 30 wide; for the values 60, 80, 500 it is
\* [50, 510].
C21_AutoScaleBound ==
    canvas.kind = "chart" =>
        /\ \A v \in ValuesOf(PublishedValues) : canvas.min_bg <= v /\ v <= canvas.max_bg
        /\ canvas.max_bg - canvas.min_bg >= BG_MIN_RANGE
        /\ ValuesOf(PublishedValues) = {60, 80, 500} =>
               canvas.min_bg = 50 /\ canvas.max_bg = 510

C21_Witness ==
    /\ canvas.kind = "chart"
    /\ PublishedValues = <<60, 80, 500>>
    /\ canvas.min_bg = 50 /\ canvas.max_bg = 510

\* two missed samples of the 5-minute sampling: the third interval
GapThreshold == 3 * (5 * 60)

\* C22 (gap suppression): no line segment on the screen joins two consecutive
\* samples whose timestamps differ by more than the gap threshold.
C22_GapSuppressed ==
    \A seg \in canvas.segments : seg.t1 - seg.t2 <= GapThreshold

\* what C26 compares of the watch: slots, counters, completion, render trigger
Observed(w) == << w.s_readings, w.s_received_count, w.s_reading_count,
                  w.s_receiving_data, w.s_status_text, w.dirty, w.completions >>

\* C26 (single-record equivalence): in a receive cycle and for every index, inside
\* [0, MAX_READINGS) or not, a single-record message {index, value, timestamp}
\* leaves the slots, s_received_count, the published count, the completion and the
\* dirty flag as the chunk message with that start index and the 6 bytes of that
\* one reading does (the chunk's out-of-bounds store taken to hit nothing).
C26_SingleRecordEquivalence ==
    InCycle =>
    \A index \in {-1, 0, MAX_READINGS - 1, MAX_READINGS}, r \in {R1, R2} :
        LET single == [NoMsg EXCEPT !.index = <<index>>, !.value = <<r.value>>,
                                    !.timestamp = <<r.timestamp>>]
            chunk  == [NoMsg EXCEPT !.index = <<index>>, !.chunk = <<Enc(<<r>>)>>]
        IN Observed(inbox_received_callback(Watch, single, "none"))
             = Observed(inbox_received_callback(Watch, chunk, "none"))

\* C19 (decode rejects malformed length): in a receive cycle, a chunk message whose
\* payload length is not a multiple of 6 (start index in range) is rejected as a
\* whole: the callback writes no slot and leaves s_received_count as it is.
C19_MalformedLengthRejected ==
    InCycle =>
        \A m \in ChunkMsgs :
            (Len(m.chunk[1]) % BYTES_PER_READING # 0 /\ m.index[1] >= 0) =>
                LET w1 == inbox_received_callback(Watch, m, "none")
                IN /\ w1.s_readings = s_readings
                   /\ w1.s_received_count = s_received_count

\* C20 (header reset): from every state, a header message leaves s_expected_count at
\* the count clamped to 36, s_received_count at 0, the receive cycle in progress,
\* every slot cleared and the units label recorded (as much of it as the label
\* buffer holds); and the state a header left has these values until the next
\* message.
C20_HeaderReset ==
    /\ \A m \in HeaderMsgs :
          LET w1 == inbox_received_callback(Watch, m, "none")
              units == m.units[1]
          IN /\ w1.s_expected_count = Min(m.count[1], MAX_READINGS)
             /\ w1.s_received_count = 0
             /\ w1.s_receiving_data
             /\ \A i \in 0 .. MAX_READINGS - 1 : w1.s_readings[i] = ZeroReading
             /\ w1.s_bg_units = IF Len(units) < UNITS_SIZE THEN units
                                ELSE SubSeq(units, 1, UNITS_SIZE - 1)
             /\ w1.s_is_mmol = (units = "mmol/L")
    /\ (hdr /\ nmsg = 0) =>
          /\ s_expected_count \in 0 .. MAX_READINGS
          /\ s_received_count = 0
          /\ s_receiving_data
          /\ \A i \in 0 .. MAX_READINGS - 1 : s_readings[i] = ZeroReading
          /\ s_bg_units \in {"mg/dL", "mmol/L", "milligram"}

\* a header was taken while a cycle that had published two readings was under way
C20_Witness ==
    /\ hdr /\ nmsg = 0
    /\ s_reading_count = 2
    /\ s_expected_count = MAX_READINGS
    /\ s_bg_units = "mg/dL"

-----------------------------------------------------------------------------
(* Claims about the send side, checked under SpecSend *)

IsHeader(m) == Has(m.count)

IsChunk(m) == Has(m.chunk) /\ Has(m.index)

\* positions in the cycle's log that hold a chunk message
ChunkPos(cy) == {i \in 1 .. Len(cy.sent) : IsChunk(cy.sent[i])}

\* transmissions of the chunk that starts at startIndex
Attempts(cy, startIndex) ==
    Cardinality({i \in ChunkPos(cy) : cy.sent[i].index[1] = startIndex})

\* slots a chunk message covers
ChunkRange(m) ==
    m.index[1] .. (m.index[1] + Len(m.chunk[1]) \div BYTES_PER_READING - 1)

Exhausted(cy) == cy.console = "Max retries reached"

\* C6 as claimed (chunk retry bound): no chunk is transmitted more than 3 times in
\* one send cycle.
C6_AtMostThreeAttempts ==
    \A c \in Cycles : \A i \in ChunkPos(cyc[c]) :
        Attempts(cyc[c], cyc[c].sent[i].index[1]) <= 3

\* C6 as amended: a chunk is transmitted at most 4 times in one send cycle (the
\* first attempt and at most 3 retries); once the retries are used up, nothing of
\* the cycle is in flight or scheduled, so no further attempt is made.
C6_AtMostFourAttempts ==
    \A c \in Cycles :
        /\ \A i \in ChunkPos(cyc[c]) :
              Attempts(cyc[c], cyc[c].sent[i].index[1]) <= MAX_CHUNK_RETRIES + 1
        /\ Exhausted(cyc[c]) =>
              /\ cyc[c].inflight = {} /\ cyc[c].timers = {}
              /\ Attempts(cyc[c], cyc[c].sent[Len(cyc[c].sent)].index[1])
                    = MAX_CHUNK_RETRIES + 1

C6_Witness ==
    \E c \in Cycles : Exhausted(cyc[c]) /\ Attempts(cyc[c], 0) = 4

\* C7 (header before chunks): a cycle's log starts with its one header message; a
\* chunk message is in the log only if the header was acknowledged; after a failed
\* header send the log holds the header alone and nothing is in flight or
\* scheduled.
C7_HeaderBeforeChunks ==
    \A c \in Cycles :
        LET cy == cyc[c] IN
        /\ \A i \in 1 .. Len(cy.sent) : IsHeader(cy.sent[i]) <=> i = 1
        /\ ChunkPos(cy) # {} => cy.headerAcked
        /\ cy.console = "Failed to send BG count" =>
              /\ Len(cy.sent) = 1 /\ ~cy.headerAcked
              /\ cy.inflight = {} /\ cy.timers = {}

C7_Witness ==
    \E c, d \in Cycles :
        /\ ChunkPos(cyc[c]) # {} /\ cyc[c].headerAcked
        /\ cyc[d].console = "Failed to send BG count"

\* C8 (one chunk in flight, increasing order): at most one send of a cycle is
\* outstanding, and none while a retry timer is pending; along the log the chunks'
\* start indices never decrease, two chunks with different start indices cover
\* disjoint slot ranges, every chunk lies in [0, count), and when the cycle reports
\* all data sent the chunks cover exactly [0, count).
C8_OneInFlightIncreasing ==
    \A c \in Cycles :
        LET cy == cyc[c]
            count == Len(cy.values)
        IN /\ Cardinality(cy.inflight) + Cardinality(cy.timers) <= 1
           /\ \A i, j \in ChunkPos(cy) :
                 i < j => /\ cy.sent[i].index[1] <= cy.sent[j].index[1]
                          /\ cy.sent[i].index[1] # cy.sent[j].index[1] =>
                                ChunkRange(cy.sent[i]) \cap ChunkRange(cy.sent[j]) = {}
           /\ \A i \in ChunkPos(cy) : ChunkRange(cy.sent[i]) \subseteq 0 .. count - 1
           /\ cy.console = "All data sent successfully" =>
                 UNION {ChunkRange(cy.sent[i]) : i \in ChunkPos(cy)} = 0 .. count - 1

C8_Witness ==
    \E c \in Cycles :
        /\ cyc[c].console = "All data sent successfully"
        /\ Len(cyc[c].values) = MAX_READINGS
        /\ Attempts(cyc[c], 0) > 1

\* C9 (abort on exhausted retries): once a cycle has reported that a chunk's
\* retries are used up, no step sends a message of that cycle or changes the cycle
\* at all, and its log ends with the exhausted chunk.
C9_AbortOnExhaustedRetries ==
    [][\A c \in Cycles :
          Exhausted(cyc[c]) =>
              /\ cyc'[c] = cyc[c]
              /\ \A i \in ChunkPos(cyc[c]) :
                    cyc[c].sent[i].index[1] <= cyc[c].sent[Len(cyc[c].sent)].index[1]]_vars

C9_Witness ==
    \E c, d \in Cycles :
        /\ Exhausted(cyc[c])
        /\ cyc[d].started /\ cyc[d].inflight # {}

-----------------------------------------------------------------------------
(* Claims about a send cycle and the watch together, checked under SpecLink *)

IsDelivered(e) == e.delivered

\* the messages the watch received, in order
Deliveries == SelectSeq(channel, IsDelivered)

\* the cache cycle c was started with
CacheOf(c) == channel[CHOOSE i \in 1 .. Len(channel) :
                          channel[i].ev = "start" /\ channel[i].c = c].cache

\* the watch has just received the last message of cycle c, after receiving the
\* cycle's header and then each of its chunks once, in the order of their start
\* indices, and nothing else since that header
CleanlyDelivered(c) ==
    LET d == Deliveries
        n == Len(d)
        mine == {i \in 1 .. n : d[i].c = c}
        count == Len(cyc[c].values)
    IN /\ mine # {}
       /\ \E h \in mine :
             /\ IsHeader(d[h].msg)
             /\ mine = h .. n
             /\ n > h
             /\ \A i \in h + 1 .. n : IsChunk(d[i].msg)
             /\ \A i, j \in h + 1 .. n : i < j => d[i].msg.index[1] < d[j].msg.index[1]
             /\ UNION {ChunkRange(d[i].msg) : i \in h + 1 .. n} = 0 .. count - 1

BgUnits == IF appSettings = "" THEN "mg/dL" ELSE appSettings

\* C23 (end-to-end delivery): right after a send cycle's header and chunks were
\* each delivered once, in order, with no message of another cycle among them, the
\* watch has published s_reading_count = min(|cache|, 36) readings, slot i holding
\* the converted value and the timestamp of cache[i], slot 0 the most recent.
C23_EndToEnd ==
    \A c \in LinkCycles :
        CleanlyDelivered(c) =>
            LET cache == CacheOf(c) IN
            /\ s_reading_count = Min(Len(cache), MAX_READINGS)
            /\ \A i \in 0 .. s_reading_count - 1 :
                  /\ s_readings[i].value = convertBGValue(cache[i + 1].v, BgUnits)
                  /\ s_readings[i].timestamp = cache[i + 1].t
                  /\ s_readings[0].timestamp >= s_readings[i].timestamp
            /\ published = DrawnReadings(Watch)
            /\ ~s_receiving_data /\ dirty

C23_Witness ==
    /\ CleanlyDelivered(2)
    /\ Len(CacheOf(2)) > MAX_READINGS
    /\ s_reading_count = MAX_READINGS
    /\ appSettings = "mmol/L"

\* the outcomes of cycle c's chunk sends, in order
ChunkOutcomes(c) ==
    LET Test(e) == e.c = c /\ e.ev \in {"ack", "nack"} /\ IsChunk(e.msg)
    IN SelectSeq(channel, Test)

\* the chunk's first two sends failed undelivered and the third succeeded
ThirdTimeLucky(c) ==
    LET o == ChunkOutcomes(c)
    IN /\ Len(o) = 3
       /\ o[1].ev = "nack" /\ ~o[1].delivered
       /\ o[2].ev = "nack" /\ ~o[2].delivered
       /\ o[3].ev = "ack"

\* C24 (retried chunk applied once): when a chunk's first two sends fail
\* undelivered and the third succeeds, the sender goes on from the end of that
\* chunk (here the end of the data: nothing is in flight or scheduled and the cycle
\* reports all data sent after 3 transmissions), and the watch, if it received
\* nothing else since the cycle's header, has counted the chunk's records once and
\* completed once.
C24_RetriedChunkAppliedOnce ==
    \A c \in LinkCycles :
        ThirdTimeLucky(c) =>
            /\ cyc[c].console = "All data sent successfully"
            /\ cyc[c].inflight = {} /\ cyc[c].timers = {}
            /\ Attempts(cyc[c], 0) = 3
            /\ CleanlyDelivered(c) =>
                  /\ s_received_count = Len(cyc[c].values)
                  /\ completions = 1

C24_Witness ==
    /\ ThirdTimeLucky(1) /\ CleanlyDelivered(1)
    /\ s_received_count = MAX_READINGS

\* positions of the channel log where a chunk send failed
FailedChunks == {i \in 1 .. Len(channel) :
                    channel[i].ev = "nack" /\ IsChunk(channel[i].msg)}

\* positions after i where cycle c called sendAppMessage
SendsAfter(c, i) == {j \in i + 1 .. Len(channel) :
                        channel[j].ev = "send" /\ channel[j].c = c}

-----------------------------------------------------------------------------
(* Claims about the Dexcom client, checked under SpecDex *)

Last(seq) == seq[Len(seq)]

\* C10 (session retry bound): one Dexcom instance starts at most 2
\* re-authentications on session-invalid responses and handles at most 3 such
\* responses; once it has handled the 3rd, no request is outstanding (no
\* re-authentication and no reading request was started), retryCount is 0 and the
\* terminal error was reported: logged, and handed to onError when the instance
\* has one.
C10_SessionRetryBound ==
    /\ dex.reauths <= 2
    /\ dex.sessionErrs <= 3
    /\ dex.sessionErrs = 3 =>
          /\ dex.reauths = 2
          /\ dex.xhr = {}
          /\ dex.retryCount = 0
          /\ Last(dex.console) = "Session error, max retries reached"
          /\ dex.hasOnError =>
                /\ Len(dex.onErrorCalls) = 1
                /\ Last(dex.onErrorCalls) = "Session error, max retries reached"

C10_Witness == dex.sessionErrs = 3 /\ dex.hasOnError /\ Len(dex.requests) = 7

\* C11 (sentinel never stored): in no reachable state does the instance's accountId
\* or sessionId hold the all-zero sentinel token, and no token pair written to
\* localStorage holds it.
C11_SentinelNeverStored ==
    /\ dex.accountId # Sentinel
    /\ dex.sessionId # Sentinel
    /\ \A i \in 1 .. Len(dex.persisted) :
          dex.persisted[i].accountId # Sentinel /\ dex.persisted[i].sessionId # Sentinel

SentinelReturned == dex.accountId = Sentinel \/ dex.sessionId = Sentinel

\* C12 (sentinel is fatal): in the state a sentinel answer leaves, the error was
\* reported (logged last, and handed to onError when the instance has one), the
\* request that got the answer is the last one issued and none is outstanding; and
\* from then on no step changes the instance, so no callback runs and no request
\* is issued.
C12_SentinelIsFatal ==
    /\ [](SentinelReturned =>
            LET msg == IF dex.accountId = Sentinel THEN "Invalid credentials"
                       ELSE "Login failed"
            IN /\ dex.xhr = {}
               /\ Last(dex.console) = msg
               /\ dex.hasOnError => Last(dex.onErrorCalls) = msg
               /\ Last(dex.requests) = IF dex.accountId = Sentinel THEN "account"
                                       ELSE "session"
               /\ dex.results = << >>)
    /\ [][SentinelReturned => dex' = dex]_vars

C12_Witness == dex.sessionId = Sentinel /\ dex.reauths = 1 /\ dex.hasOnError

\* the console lines of the failures that are not session-invalid responses
NotRetried ==
    { "Network error fetching account ID", "Timeout fetching account ID",
      "Error fetching account ID",
      "Network error fetching session ID", "Timeout fetching session ID",
      "Error fetching session ID", "Request timeout: session ID fetch took too long",
      "Network error fetching glucose readings", "Timeout fetching glucose readings",
      "Request timeout: glucose readings fetch took too long",
      "Failed to get readings", "Server error" }

Count(seq, x) == Cardinality({i \in 1 .. Len(seq) : seq[i] = x})

\* C27 (only session-invalid is retried): in the state a network error, a timeout,
\* an HTTP status other than 200/500 or a server error of another code leaves, at
\* any of the three steps, no request is outstanding, so none follows; after a
\* non-session server error retryCount is 0 and the error was reported (logged,
\* and handed to onError when the instance has one); and every reading request
\* after the first follows a session-invalid response.
C27_OnlySessionInvalidRetried ==
    /\ Cardinality(dex.xhr) <= 1
    /\ Count(dex.requests, "readings") <= 1 + dex.reauths
    /\ (dex.console # << >> /\ Last(dex.console) \in NotRetried) =>
          /\ dex.xhr = {}
          /\ Last(dex.console) = "Server error" =>
                /\ dex.retryCount = 0
                /\ dex.hasOnError => Last(dex.onErrorCalls) = "Server error"

C27_Witness ==
    /\ dex.console # << >> /\ Last(dex.console) = "Server error"
    /\ dex.reauths = 1 /\ dex.retryCount = 0
    /\ dex.hasOnError /\ dex.xhr = {}

SessionInvalidCodes == {"SessionIdNotFound", "SessionNotValid"}

\* C28 (session-invalid clears the session): whatever reading request is
\* outstanding, handling a session-invalid answer to it leaves the instance with
\* sessionId cleared, not the session id the request carried, and accountId as it
\* was.
C28_SessionCleared ==
    \A req \in dex.xhr : \A code \in SessionInvalidCodes :
        req.kind = "readings" =>
            LET d1 == onReadingsLoad(Done(req), req, 500, ErrorBody(code))
            IN /\ d1.sessionId = Null
               /\ d1.sessionId # req.sessionId
               /\ d1.accountId = dex.accountId

\* C29 (authentication steps and ordering): an account-id request is outstanding
\* only while accountId is absent; a session-id request only while sessionId is
\* absent and accountId present; authenticate with both present runs the callback
\* at once, issuing nothing of its own; and the callback never runs while
\* sessionId is absent: no reading request carries an absent session id.
C29_AuthOrdering ==
    /\ \A req \in dex.xhr :
          /\ req.kind = "account" => Falsy(dex.accountId)
          /\ req.kind = "session" => Falsy(dex.sessionId) /\ ~Falsy(dex.accountId)
          /\ req.kind = "readings" => ~Falsy(req.sessionId)
    /\ (~Falsy(dex.accountId) /\ ~Falsy(dex.sessionId)) =>
          \A w \in FetchWindows :
              authenticate(dex, "fetch", w[1], w[2]) = fetchGlucoseReadings(dex, w[1], w[2])

Usable(token) == ~Falsy(token) /\ token # Sentinel

\* C31 (persisted session tokens): once the account id is resolved, the stored
\* dexcom_account_id is the instance's accountId, and once the session id is
\* established (at first or by a re-authentication), the stored dexcom_session_id
\* is the instance's sessionId, whatever becomes of the reading request.
C31_TokensPersisted ==
    /\ Usable(dex.accountId) => dex.stored.accountId = dex.accountId
    /\ (Usable(dex.accountId) /\ Usable(dex.sessionId)) =>
          dex.stored.sessionId = dex.sessionId

\* the least integer not below num / den
Ceiling(num, den) ==
    CHOOSE k \in -1 .. 400 : den * k >= num /\ den * (k - 1) < num

Max(a, b) == IF a > b THEN a ELSE b

\* C30 as the claim words it, for a clock reading of secs seconds and ms
\* milliseconds
ClaimedWindow(cache, secs, ms) ==
    IF cache = << >> THEN << 180, 36 >>
    ELSE LET minutes == Max(Ceiling((secs - cache[1].t) * 1000 + ms, 60000), 10) + 5
         IN << minutes, Min(Ceiling(minutes, 5) + 1, 36) >>

\* C30 (fetch window): every request of a fetch cycle carries the window the claim
\* gives for the loaded cache and the clock: (180, 36) for an empty cache, else
\* minutes = max(ceil((now - cache[0].t) / 60), 10) + 5 and
\* maxCount = min(ceil(minutes / 5) + 1, 36); and minutes >= 15, 4 <= maxCount <= 36.
C30_FetchWindow ==
    \A req \in dex.xhr :
        /\ \E ms \in FetchMillis :
              << req.minutes, req.maxCount >> = ClaimedWindow(glucose_cache, now, ms)
        /\ req.minutes >= 15
        /\ 4 <= req.maxCount /\ req.maxCount <= 36

C30_Witness ==
    \E req \in dex.xhr :
        /\ glucose_cache # << >>
        /\ req.minutes = 26 /\ req.maxCount = 7

-----------------------------------------------------------------------------
(* Claims about the reading cache, checked under SpecMerge *)

\* timestamps of a list
Times(list) == { list[i].t : i \in 1 .. Len(list) }

\* the last entry of a list with timestamp t
LastAt(list, t) ==
    list[CHOOSE i \in 1 .. Len(list) :
            /\ list[i].t = t
            /\ \A j \in 1 .. Len(list) : list[j].t = t => j <= i]

\* result entries with timestamp t
ResultAt(t) == { i \in 1 .. Len(lastMerge.result) : lastMerge.result[i].t = t }

MergeCutoff == lastMerge.clock - CACHE_DURATION

\* C13 (merge, incoming wins): after a merge, for every timestamp t inside the
\* retention window that the existing and the incoming list both hold, the result
\* has exactly one entry at t and it is incoming's (the last one, should incoming
\* hold t more than once).
C13_IncomingWins ==
    lastMerge.done =>
        \A t \in Times(lastMerge.existing) \cap Times(lastMerge.incoming) :
            t >= MergeCutoff =>
                /\ Cardinality(ResultAt(t)) = 1
                /\ \A i \in ResultAt(t) :
                      lastMerge.result[i] = LastAt(lastMerge.incoming, t)

C13_Witness ==
    /\ lastMerge.done
    /\ \E t \in Times(lastMerge.existing) \cap Times(lastMerge.incoming) :
          /\ t >= MergeCutoff
          /\ LastAt(lastMerge.existing, t).v # LastAt(lastMerge.incoming, t).v
          /\ \E i \in ResultAt(t) : lastMerge.result[i] = LastAt(lastMerge.incoming, t)

\* C14 (retention): after a merge the result holds no entry older than
\* clock - 10800, and it holds an entry for every timestamp of the two lists that
\* is not older than that; every entry of the result comes from one of the lists.
C14_Retention ==
    lastMerge.done =>
        /\ \A i \in 1 .. Len(lastMerge.result) :
              /\ lastMerge.result[i].t >= MergeCutoff
              /\ \E l \in {lastMerge.existing, lastMerge.incoming} :
                    \E k \in 1 .. Len(l) : l[k] = lastMerge.result[i]
        /\ \A t \in Times(lastMerge.existing) \cup Times(lastMerge.incoming) :
              t >= MergeCutoff => ResultAt(t) # {}

C14_Witness ==
    /\ lastMerge.done
    /\ \E t \in Times(lastMerge.existing) \cup Times(lastMerge.incoming) :
          t = MergeCutoff /\ ResultAt(t) # {}
    /\ \E t \in Times(lastMerge.existing) \cup Times(lastMerge.incoming) :
          t = MergeCutoff - 1 /\ ResultAt(t) = {}

\* C15 (merge idempotence): at the clock value of a merge, merging its result
\* with the empty list, or with the same incoming list again, returns the result
\* unchanged.
C15_MergeIdempotent ==
    lastMerge.done =>
        /\ mergeCache(lastMerge.result, << >>, lastMerge.clock) = lastMerge.result
        /\ mergeCache(lastMerge.result, lastMerge.incoming, lastMerge.clock)
              = lastMerge.result

C15_Witness ==
    /\ lastMerge.done
    /\ Len(lastMerge.result) >= 2
    /\ Len(lastMerge.incoming) >= 2
    /\ lastMerge.result # lastMerge.existing
    /\ mergeCache(lastMerge.result, lastMerge.incoming, lastMerge.clock)
          = lastMerge.result

\* C16 (cache ordering): the list a merge returns, which is the cache saved, is
\* strictly descending by timestamp (so no two entries share a timestamp),
\* whatever the order and the repetitions of the two lists merged.
C16_StrictlyDescending ==
    lastMerge.done =>
        /\ glucose_cache = lastMerge.result
        /\ \A i, j \in 1 .. Len(glucose_cache) :
              i < j => glucose_cache[i].t > glucose_cache[j].t

C16_Witness ==
    /\ lastMerge.done
    /\ Len(glucose_cache) >= 2
    /\ Len(lastMerge.existing) = 2
    /\ lastMerge.existing[1].t <= lastMerge.existing[2].t
    /\ Len(lastMerge.incoming) = 2
    /\ lastMerge.incoming[1].t = lastMerge.incoming[2].t

-----------------------------------------------------------------------------
(* Claims about the wire codec, checked under SpecCodec *)

\* an integer x equals the timestamp hi * 2^16 + lo
SameTime(x, hi, lo) == x \div Pow2_16 = hi /\ x % Pow2_16 = lo

\* C17 (codec round-trip): when the bytes encodeReadingsToBytes made of a single
\* reading (value in [-32768, 32767], timestamp in [0, 2^32 - 1]) were decoded by
\* the watch's chunk decode at start index 0, slot 0 holds that value and that
\* timestamp.
C17_CodecRoundTrip ==
    (decoded.done /\ Len(codecIn) = 1) =>
        /\ decoded.count = 1
        /\ decoded.slots[1].value = codecIn[1].value
        /\ SameTime(decoded.slots[1].timestamp, codecIn[1].hi, codecIn[1].lo)

\* the two's-complement 16-bit pattern of a value
Unsigned16(value) == IF value < 0 THEN value + Pow2_16 ELSE value

\* the layout of the bytes on the wire: 6 bytes per reading, each in [0, 255], in
\* input order: two value bytes (two's complement, least significant first), then
\* four timestamp bytes (least significant first)
LittleEndianLayout ==
    /\ Len(wire.bytes) = BYTES_PER_READING * Len(codecIn)
    /\ \A k \in 1 .. Len(wire.bytes) : wire.bytes[k] \in 0 .. 255
    /\ \A i \in 1 .. Len(codecIn) :
          LET b == SubSeq(wire.bytes, 6 * (i - 1) + 1, 6 * i)
          IN /\ b[1] + 256 * b[2] = Unsigned16(codecIn[i].value)
             /\ b[3] + 256 * b[4] = codecIn[i].lo
             /\ b[5] + 256 * b[6] = codecIn[i].hi

\* C18 as claimed (wire layout): the encoder's bytes have the little-endian layout,
\* and value 1230 with timestamp 1700000000 gives C6 04 00 F1 53 65.
C18_WireLayoutClaimed ==
    wire.done =>
        /\ LittleEndianLayout
        /\ codecIn = << Wide(1230, 25939, 61696) >> =>
              wire.bytes = << 198, 4, 0, 241, 83, 101 >>

\* C18 as amended: the encoder's bytes have the little-endian layout, and value
\* 1230 (0x04CE) with timestamp 1700000000 gives CE 04 00 F1 53 65.
C18_WireLayout ==
    wire.done =>
        /\ LittleEndianLayout
        /\ codecIn = << Wide(1230, 25939, 61696) >> =>
              wire.bytes = << 206, 4, 0, 241, 83, 101 >>

C18_Witness ==
    /\ wire.done
    /\ codecIn = << Wide(1230, 25939, 61696) >>
    /\ wire.bytes = << 206, 4, 0, 241, 83, 101 >>

\* C32: a fetch cycle that ends in an error has not reached the results
\* callback, so it has written nothing to the stored cache and has handed no
\* message to the device; every step that leaves the results untouched leaves
\* the stored cache and the send cycles untouched, and a cache that was written
\* holds the result of the merge.
EndedInError == dex.console # << >> /\ dex.xhr = {}

C32_FailedFetchLeavesCache ==
    /\ [](dex.console # << >> => dex.results = << >>)
    /\ [](dex.results = << >> =>
            /\ ~lastMerge.done
            /\ \A c \in Cycles : ~cyc[c].started)
    /\ [](lastMerge.done =>
            /\ glucose_cache = lastMerge.result
            /\ lastMerge.result = mergeCache(lastMerge.existing, lastMerge.incoming,
                                             lastMerge.clock))
    /\ [][Len(dex'.results) = Len(dex.results) =>
            /\ glucose_cache' = glucose_cache
            /\ cyc' = cyc]_vars

C32_Witness ==
    /\ EndedInError
    /\ dex.reauths >= 1
    /\ glucose_cache # << >>
    /\ ~lastMerge.done
    /\ \A c \in Cycles : ~cyc[c].started

\* C33: whenever a receive cycle is in progress (a header was received and the
\* cycle has not completed) the layer's update procedure draws "Loading...", and
\* whenever the buffer holds no data and no cycle is in progress it draws
\* "No data".  (Stated for the states in which no store has gone outside the
\* buffer.)
CycleInProgress == hdr /\ s_receiving_data /\ oob = {}

C33_Placeholder ==
    /\ CycleInProgress => Screen(Watch).kind = "Loading..."
    /\ (s_reading_count = 0 /\ ~s_receiving_data /\ oob = {}) =>
          Screen(Watch).kind = "No data"

\* C34: for both unit systems and every scaled range of at least 30,
\* choose_grid_step returns a step of the unit system's candidate set that fits
\* one to three times into the range, and draw_value_grid draws at most three
\* dotted lines.  (Stated for buffers whose values a sensor can report: 2.2 to
\* 22.2 mmol/L, 40 to 400 mg/dL.)
InSeq(x, seq) == \E i \in 1 .. Len(seq) : seq[i] = x

SensorRange == 22 .. 400

C34_GridStep ==
    (canvas.kind = "chart" /\ ScaledValues(Watch) \subseteq SensorRange) =>
        LET bg_range == canvas.max_bg - canvas.min_bg
            s == choose_grid_step(Watch, bg_range)
        IN bg_range >= BG_MIN_RANGE =>
             /\ InSeq(s, GridSteps(Watch))
             /\ canvas.grid.step = s
             /\ CDiv(bg_range, s) >= 1 /\ CDiv(bg_range, s) <= 3
             /\ Cardinality(canvas.grid.dotted) <= 3

\* C35 as claimed: for every non-empty buffer, draw_value_grid draws exactly one
\* solid threshold line and no dotted line whose value is closer to the threshold
\* than max(1, bg_range / 20).  (Stated for buffers whose values a sensor can
\* report.)
CloseDist(bg_range) == Max(1, CDiv(bg_range, 20))

NoDottedNearThreshold ==
    \A bg \in canvas.grid.dotted :
        Abs(bg - canvas.grid.threshold) >= CloseDist(canvas.max_bg - canvas.min_bg)

SampleHeights(cv) ==
    { << seg.t1, seg.y1 >> : seg \in cv.segments } \cup
    { << seg.t2, seg.y2 >> : seg \in cv.segments }

\* the watch after a header and a chunk that carry the samples 1 .. count - 1
WithoutNewest(w) ==
    LET n == w.s_reading_count
        buf == [i \in 1 .. n - 1 |-> w.s_readings[i]]
        header == [NoMsg EXCEPT !.count = <<n - 1>>]
        chunk  == [NoMsg EXCEPT !.chunk = <<Enc(buf)>>, !.index = <<0>>]
    IN inbox_received_callback(inbox_received_callback(w, header, "none"),
                               chunk, "none")

C36_TimePositioning ==
    (canvas.kind = "chart" /\ s_reading_count >= 3) =>
        /\ \A a \in SampleHeights(canvas), b \in SampleHeights(Draw(WithoutNewest(Watch))) :
              a[1] = b[1] => a[2] = b[2]
        /\ \A g \in canvas.time_grid, a \in SampleHeights(canvas) :
              s_readings[0].timestamp - a[1] = g.minutes_ago * 60 => a[2] = g.y

\* C37: for every non-empty buffer, after the push-apart step and the re-clamp
\* each of the two label rectangles lies vertically within
\* [0, CHART_START_Y + CHART_HEIGHT] and horizontally within the chart area, and
\* the two label rectangles do not intersect.  (Stated for buffers whose values
\* a sensor can report.)
Intersect(a, b) ==
    /\ a.x < b.x + b.w /\ b.x < a.x + a.w
    /\ a.y < b.y + b.h /\ b.y < a.y + a.h

InChart(r) ==
    /\ r.y >= 0 /\ r.y + r.h <= CHART_START_Y + CHART_HEIGHT
    /\ r.x >= chart_left(Watch) /\ r.x + r.w <= chart_left(Watch) + CHART_WIDTH

C37_ExtremaLabels ==
    (canvas.kind = "chart" /\ s_reading_count >= 1
         /\ ScaledValues(Watch) \subseteq SensorRange) =>
        /\ InChart(canvas.labels[1])
        /\ InChart(canvas.labels[2])
        /\ ~Intersect(canvas.labels[1], canvas.labels[2])

\* C38: whenever the receiver publishes the buffer, every slot in
\* [0, expectedCount) has been written by a chunk or a single-record message
\* since the most recent header.  (The header zeroes every slot and every record
\* the messages carry is non-zero, so a published slot that is zero was not
\* written; stated for the cycles in which no store has gone outside the buffer.)
C38_CompleteMeansWritten ==
    (hdr /\ completions > 0 /\ oob = {}) =>
        \A i \in 1 .. Len(published.slots) : published.slots[i] # ZeroReading

\* C39: when two fetch cycles overlap, each loading the cache before the other
\* saves, every reading that either cycle merged and saved is still in the
\* stored cache after both cycles have finished, provided it is inside the
\* retention window.
FetchesFinished == \A f \in FetchCycles : fetches[f].phase \in {"done", "failed"}

InStoredCache(e) == \E j \in 1 .. Len(glucose_cache) : glucose_cache[j] = e

C39_NoLostCacheUpdate ==
    FetchesFinished =>
        \A f \in FetchCycles : \A i \in 1 .. Len(fetches[f].saved) :
            Retained(fetches[f].saved[i], now - CACHE_DURATION) =>
                InStoredCache(fetches[f].saved[i])

\* C40: when the messages of two send cycles interleave on the channel (each
\* delivered once, in its cycle's order), the reading set the watch has
\* published since the last header it received consists only of records of that
\* header's cycle, and it was published only after all records of that cycle
\* had been received.
LastHeader ==
    SetMax({h \in 1 .. Len(Deliveries) : IsHeader(Deliveries[h].msg)})

C40_NoMixing ==
    (Fails = 0 /\ hdr /\ completions > 0) =>
        LET d == Deliveries
            h == LastHeader
            c == d[h].c
            cache == CacheOf(c)
            count == Min(Len(cache), MAX_READINGS)
            mine == {i \in h + 1 .. Len(d) : d[i].c = c /\ IsChunk(d[i].msg)}
        IN /\ \A i \in h + 1 .. Len(d) : d[i].c = c
           /\ UNION {ChunkRange(d[i].msg) : i \in mine} = 0 .. count - 1
           /\ published.n = count
           /\ \A i \in 1 .. Len(published.slots) :
                 /\ published.slots[i].value = convertBGValue(cache[i].v, BgUnits)
                 /\ published.slots[i].timestamp = cache[i].t

====
